---- MODULE Spec2Model ----
(***************************************************************************)
(* World P.A.M. -- ingestion-and-scoring pipeline.                         *)
(*                                                                         *)
(* Part 1: the fetch layer (security.py, cache.py, fetcher.py,             *)
(*         async_fetcher.py).                                              *)
(* Part 2: the store (database.py, async_database.py).                     *)
(* Part 3: the signal computer and the evaluator (pam_world.py).           *)
(* Part 4: the change detector (streaming/feed_processor.py).              *)
(*                                                                         *)
(* Time is a wall clock in seconds that never runs backwards.  Strings     *)
(* that the code inspects by prefix (hostnames) are sequences of their     *)
(* dot-separated labels.  Reals are fixed-point integers (SCALE = 1.0).    *)
(***************************************************************************)
EXTENDS Integers, Sequences, FiniteSets, TLC

VARIABLES
    clock,              \* time.time() / datetime.utcnow(), seconds
    rate_limit_store,   \* security._rate_limit_store: netloc -> list of timestamps
    admitted,           \* history: netloc -> timestamps of the calls check_rate_limit admitted
    feed_cache,         \* cache._feed_cache._cache: key -> CacheEntry (or NONE)
    last,               \* outcome of the last fetch-layer call
    db,                 \* the SQLite file: tables, sqlite_sequence, the connection's rowid
    db_ret,             \* the last store call: arguments and value returned
    sig_ret,            \* the last compute_signal call: arguments and outcome
    eval_ret,           \* the last evaluate call: arguments and outcome
    pam_calls,          \* number of WorldPAM calls made
    last_hashes,        \* FeedProcessor.last_hashes: source name -> hash
    published,          \* the events handed to EventBus.publish, in order
    proc_ret,           \* the last process_feed call: arguments and outcome
    proc_calls,         \* number of process_feed calls made
    tasks,              \* TaskScheduler.tasks: job_id -> task (0: no entry)
    jobs,               \* TaskScheduler.jobs: job_id -> job record (NONE: no entry)
    loop_tasks,         \* the asyncio tasks created so far, in creation order
    subscribers,        \* EventBus.subscribers: event type -> list of handlers (NONE: no key)
    pubs,               \* the publish calls made so far, in call order
    invoked,            \* handler -> the publish call it was last invoked for (0: never)
    active_connections, \* ConnectionManager.active_connections
    subscriptions,      \* ConnectionManager.subscriptions: client -> scenarios (NoKey: no key)
    sends,              \* the broadcast and send_personal_message calls in flight or just over
    fetch_all,          \* the last fetch_feeds_parallel call: arguments and map returned
    kv_cache,           \* TTLCache._cache of a cache made with default_ttl_seconds given
    kv_sets,            \* history: key -> the most recent set not followed by delete or clear
    kv_ret,             \* the last TTLCache call: arguments, time and value returned
    cleanup_ret,        \* the last cleanup_old_data call: argument, time, tables, counts
    cfg_ret,            \* the last validate_config / _load_config_impl call and its result
    alert_mgr,          \* AlertManager: rules, alerts, and the values each rule has seen
    api_limiter,        \* RateLimiter of the API: the windows, and the requests admitted
    audit,              \* the audit_log table and the last call on it
    metrics,            \* MetricsCollector: counters, timers, the lock, the threads in it
    upsert,             \* source_status under concurrent update_source_status calls
    url_ret,            \* the last validate_url / get_allowed_netlocs_from_config call
    bucket,             \* one host's list in _rate_limit_store under concurrent check_rate_limit
    severity_ret,       \* the last _determine_severity call: arguments and result
    status_log,         \* the update_source_status calls made one after another, in order
    delivery            \* one EventBus whose lists change while a publish call delivers

fetchVars == <<clock, rate_limit_store, admitted, feed_cache, last>>

dbVars == <<db, db_ret>>

pamVars == <<sig_ret, eval_ret, pam_calls>>

procVars == <<last_hashes, published, proc_ret, proc_calls>>

coreVars == <<fetchVars, dbVars, pamVars, procVars>>

schedVars == <<tasks, jobs, loop_tasks>>

busVars == <<subscribers, pubs, invoked>>

wsVars == <<active_connections, subscriptions, sends>>

kvVars == <<kv_cache, kv_sets, kv_ret>>

lateVars == <<cfg_ret, alert_mgr, api_limiter, audit, metrics, upsert, url_ret, bucket, severity_ret, status_log, delivery>>

moreVars == <<schedVars, busVars, wsVars, fetch_all, kvVars, cleanup_ret, lateVars>>

sharedVars == <<coreVars, schedVars, busVars, wsVars, fetch_all, kvVars, cleanup_ret>>

\* what the scheduler, the event bus, the connection manager and the bulk
\* fetch leave alone
exceptSched == <<coreVars, busVars, wsVars, fetch_all, kvVars, cleanup_ret, lateVars>>

exceptBus == <<coreVars, schedVars, wsVars, fetch_all, kvVars, cleanup_ret, lateVars>>

exceptWs == <<coreVars, schedVars, busVars, fetch_all, kvVars, cleanup_ret, lateVars>>

exceptFetchAll == <<coreVars, schedVars, busVars, wsVars, kvVars, cleanup_ret, lateVars>>

\* what a TTLCache call leaves alone
exceptKv ==
    <<fetchVars, dbVars, pamVars, procVars, schedVars, busVars, wsVars, fetch_all, cleanup_ret,
      lateVars>>

\* what cleanup_old_data leaves alone
exceptCleanup ==
    <<fetchVars, pamVars, procVars, schedVars, busVars, wsVars, fetch_all, kvVars, lateVars>>

\* what validate_config and _load_config_impl leave alone
exceptCfg == <<sharedVars, alert_mgr, api_limiter, audit, metrics, upsert, url_ret, bucket, severity_ret, status_log, delivery>>

\* what the alert manager leaves alone
exceptAlerts == <<sharedVars, cfg_ret, api_limiter, audit, metrics, upsert, url_ret, bucket, severity_ret, status_log, delivery>>

\* what the audit logger and the GDPR operations leave alone
exceptAudit == <<sharedVars, cfg_ret, alert_mgr, api_limiter, metrics, upsert, url_ret, bucket, severity_ret, status_log, delivery>>

\* what the metrics collector leaves alone
exceptMetrics == <<sharedVars, cfg_ret, alert_mgr, api_limiter, audit, upsert, url_ret, bucket, severity_ret, status_log, delivery>>

\* what concurrent update_source_status calls leave alone
exceptUpsert == <<sharedVars, cfg_ret, alert_mgr, api_limiter, audit, metrics, url_ret, bucket, severity_ret, status_log, delivery>>

\* what validate_url leaves alone
exceptUrl == <<sharedVars, cfg_ret, alert_mgr, api_limiter, audit, metrics, upsert, bucket, severity_ret, status_log, delivery>>

\* what concurrent check_rate_limit calls leave alone
exceptBucket == <<sharedVars, cfg_ret, alert_mgr, api_limiter, audit, metrics, upsert, url_ret, severity_ret, status_log, delivery>>

\* what _determine_severity leaves alone
exceptSeverity == <<sharedVars, cfg_ret, alert_mgr, api_limiter, audit, metrics, upsert, url_ret, bucket, status_log, delivery>>

\* what the sequential update_source_status calls leave alone
exceptStatus ==
    <<fetchVars, pamVars, procVars, schedVars, busVars, wsVars, fetch_all, kvVars, cleanup_ret,
      cfg_ret, alert_mgr, api_limiter, audit, metrics, upsert, url_ret, bucket, severity_ret,
      delivery>>

\* what the bus under change leaves alone
exceptDelivery == <<sharedVars, cfg_ret, alert_mgr, api_limiter, audit, metrics, upsert, url_ret, bucket, severity_ret, status_log>>

\* what the rate limiter of the API leaves alone, the clock apart
exceptApi ==
    <<rate_limit_store, admitted, feed_cache, last, dbVars, pamVars, procVars, schedVars,
      busVars, wsVars, fetch_all, kvVars, cleanup_ret, cfg_ret, alert_mgr, audit, metrics,
      upsert, url_ret,
      bucket,
      severity_ret,
      status_log,
      delivery>>

vars == <<coreVars, moreVars>>

NONE == "None"

(***************************************************************************)
(* Bounds of the model.                                                    *)
(***************************************************************************)
TickLen == 30          \* seconds the clock advances by in one step
MaxTicks == 2          \* number of clock steps
MaxDbCalls == 4        \* number of store calls in a run of the store
LongTick == 43200      \* seconds the clock advances by in one long step: half a day
MaxLongTicks == 3      \* number of long clock steps
MaxCleanups == 2       \* number of cleanup_old_data calls
MaxAlertEvents == 2    \* number of events the alert manager handles
MaxRuleChanges == 2    \* number of add_rule and remove_rule calls
MaxAuditCalls == 4     \* number of calls of the audit logger and the GDPR operations
MaxMetricCalls == 3    \* number of calls of the metrics collector
MaxUpserts == 4        \* number of concurrent update_source_status calls
MaxDeliveryOps == 6    \* number of calls made on the bus whose lists change during a delivery
MaxStatusCalls == 4    \* number of sequential update_source_status calls
CacheWaitLen == 400    \* seconds between two rounds of fetches of a cached feed
MaxCacheWaits == 2     \* number of such pauses
MaxCacheFetches == 11  \* number of fetches the rate limiter admits in such a run
MaxBucketCalls == 12   \* number of concurrent check_rate_limit calls for one host
MaxApiCalls == 6       \* number of requests the rate limiter of the API checks
MaxApiWaits == 3       \* number of pauses between those requests
MaxComputes == 2       \* number of compute_signal calls in a run of the signal computer
MaxEvals == 1          \* number of evaluate calls in a run of the evaluator
MaxSimulate == 20      \* the largest number of Monte Carlo trials
MaxProcess == 4        \* number of process_feed calls in a run of the feed processor
MaxSleeps == 3         \* number of interval sleeps of the feed processor
MaxTasks == 2          \* number of tasks the scheduler creates in a run
MaxPublishes == 2      \* number of publish calls in a run of the event bus
MaxHandlers == 2       \* length of a subscriber list
MaxSends == 1          \* number of broadcast and send_personal_message calls in flight
MaxRequests == 2       \* number of requests handed to fetch_feeds_parallel
MaxBulkCalls == 1      \* number of fetch_feeds_parallel calls in a run of the bulk fetch

(***************************************************************************)
(* URLs.  urlparse(url) gives scheme, netloc and hostname; netloc is the   *)
(* authority as written (host plus port), hostname is the host alone.      *)
(***************************************************************************)
Url(s, h, p, q) == [scheme |-> s, host |-> h, port |-> p, path |-> q]

UrlFeed      == Url("https", <<"example", "com">>, "", "/feed")
UrlFeedPort  == Url("https", <<"example", "com">>, "443", "/feed")
UrlNews      == Url("http", <<"www", "news", "com">>, "", "/rss")
UrlFtp       == Url("ftp", <<"example", "com">>, "", "/feed")
UrlFile      == Url("file", <<>>, "", "/etc/passwd")
UrlNoHost    == Url("http", <<>>, "", "/x")
UrlLocalhost == Url("http", <<"localhost">>, "", "/")
UrlLoopback  == Url("http", <<"127", "0", "0", "1">>, "", "/")
UrlAnyAddr   == Url("http", <<"0", "0", "0", "0">>, "", "/")
Url10        == Url("http", <<"10", "0", "0", "1">>, "", "/")
Url172Low    == Url("http", <<"172", "16", "0", "1">>, "", "/")
Url172High   == Url("https", <<"172", "31", "255", "254">>, "8080", "/")
Url192       == Url("http", <<"192", "168", "1", "1">>, "", "/")
Url169       == Url("http", <<"169", "254", "169", "254">>, "", "/")
Url100       == Url("http", <<"100", "0", "0", "1">>, "", "/")

PublicUrls == {UrlFeed, UrlFeedPort, UrlNews, Url100}

BlockedUrls == {UrlFtp, UrlFile, UrlNoHost, UrlLocalhost, UrlLoopback,
                UrlAnyAddr, Url10, Url172Low, Url172High, Url192, Url169}

Urls == PublicUrls \cup BlockedUrls

\* urlparse(url).netloc
Netloc(url) == <<url.host, url.port>>

\* urlparse(url).hostname
Hostname(url) == url.host

Netlocs == {Netloc(u) : u \in Urls}

\* allowed_netlocs: Optional[Set[str]]; given = FALSE is None
NoWhitelist == [given |-> FALSE, hosts |-> {}]
Whitelist(hs) == [given |-> TRUE, hosts |-> hs]

\* the whitelists a caller passes as allowed_netlocs
Whitelists == {NoWhitelist, Whitelist({<<"news", "com">>})}

(***************************************************************************)
(* security.py constants                                                   *)
(***************************************************************************)
ALLOWED_SCHEMES == {"http", "https"}
RATE_LIMIT_REQUESTS == 10
RATE_LIMIT_WINDOW == 60
FEED_TTL == 600

\* str.startswith(prefix + "."), on the labels of a hostname
StartsWith(host, prefix) ==
    /\ Len(host) > Len(prefix)
    /\ SubSeq(host, 1, Len(prefix)) = prefix

PrivatePrefixes ==
    {<<"10">>, <<"192", "168">>, <<"169", "254">>}
        \cup {<<"172", o>> : o \in {"16", "17", "18", "19", "20", "21", "22", "23",
                                    "24", "25", "26", "27", "28", "29", "30", "31"}}

\* validate_url with the private-range check left out
ValidateUrlNoPrivate(url, allowed_netlocs) ==
    /\ url.scheme \in ALLOWED_SCHEMES
    /\ Hostname(url) # <<>>
    /\ Hostname(url) \notin {<<"localhost">>, <<"127", "0", "0", "1">>, <<"0", "0", "0", "0">>}
    /\ \/ ~allowed_netlocs.given
       \/ allowed_netlocs.hosts = {}
       \/ Hostname(url) \in allowed_netlocs.hosts
       \/ /\ StartsWith(Hostname(url), <<"www">>)
          /\ Tail(Hostname(url)) \in allowed_netlocs.hosts

\* security.validate_url
ValidateUrl(url, allowed_netlocs) ==
    /\ url.scheme \in ALLOWED_SCHEMES
    /\ Hostname(url) # <<>>
    /\ Hostname(url) \notin {<<"localhost">>, <<"127", "0", "0", "1">>, <<"0", "0", "0", "0">>}
    /\ \A p \in PrivatePrefixes : ~StartsWith(Hostname(url), p)
    /\ \/ ~allowed_netlocs.given
       \/ allowed_netlocs.hosts = {}
       \/ Hostname(url) \in allowed_netlocs.hosts
       \/ /\ StartsWith(Hostname(url), <<"www">>)
          /\ Tail(Hostname(url)) \in allowed_netlocs.hosts

\* dict access with a default, dict assignment, dict deletion
Get(d, k, default) == IF k \in DOMAIN d THEN d[k] ELSE default

Put(d, k, v) == [x \in DOMAIN d \cup {k} |-> IF x = k THEN v ELSE d[x]]

Remove(d, k) == [x \in DOMAIN d \ {k} |-> d[x]]

\* [ts for ts in lst if now - ts < RATE_LIMIT_WINDOW]
RECURSIVE Fresh(_, _)
Fresh(lst, now) ==
    IF lst = <<>> THEN <<>>
    ELSE IF now - Head(lst) < RATE_LIMIT_WINDOW
         THEN <<Head(lst)>> \o Fresh(Tail(lst), now)
         ELSE Fresh(Tail(lst), now)

\* security.check_rate_limit: the value returned, the store and the history after the call
RateAllowed(store, url, now) ==
    Len(Fresh(Get(store, Netloc(url), <<>>), now)) < RATE_LIMIT_REQUESTS

RateStore(store, url, now) ==
    Put(store, Netloc(url),
        IF RateAllowed(store, url, now)
        THEN Append(Fresh(Get(store, Netloc(url), <<>>), now), now)
        ELSE Fresh(Get(store, Netloc(url), <<>>), now))

RateHistory(hist, store, url, now) ==
    IF RateAllowed(store, url, now)
    THEN Put(hist, Netloc(url), Append(Get(hist, Netloc(url), <<>>), now))
    ELSE hist

(***************************************************************************)
(* cache.py: TTLCache, the global feed cache.  The key "feed:<url>" is the *)
(* URL itself.                                                             *)
(***************************************************************************)
\* a cache whose lookup always misses
CacheValueMiss(cache, url, now) == NONE

\* TTLCache.get: the value returned
CacheValue(cache, url, now) ==
    IF url \notin DOMAIN cache THEN NONE
    ELSE IF now > cache[url].expires_at THEN NONE
    ELSE cache[url].value

\* TTLCache.get: the cache after the call (an expired entry is deleted)
CacheAfterGet(cache, url, now) ==
    IF url \in DOMAIN cache /\ now > cache[url].expires_at
    THEN Remove(cache, url)
    ELSE cache

\* TTLCache.set
CacheSet(cache, url, value, ttl_seconds, now) ==
    Put(cache, url, [value |-> value, expires_at |-> now + ttl_seconds])

\* TTLCache(default_ttl_seconds=40): the cache the calls below are made on
DefaultTtl == 40

\* ttl = ttl_seconds if ttl_seconds is not None else self.default_ttl, with
\* the argument taken for None always
EffectiveTtlDefault(ttl_seconds) == DefaultTtl

\* ttl = ttl_seconds if ttl_seconds is not None else self.default_ttl; the
\* argument is <<>> for None and <<n>> for n
EffectiveTtl(ttl_seconds) ==
    IF ttl_seconds # <<>> THEN ttl_seconds[1] ELSE DefaultTtl

\* TTLCache.delete
CacheDelete(cache, key) == IF key \in DOMAIN cache THEN Remove(cache, key) ELSE cache

\* TTLCache.clear
CacheClear(cache) == <<>>

\* TTLCache.cleanup_expired
CacheCleanupExpired(cache, now) ==
    [k \in {x \in DOMAIN cache : ~(now > cache[x].expires_at)} |-> cache[k]]

(***************************************************************************)
(* validators.py: validate_config.  A config is a record of the lists      *)
(* sources, signals and hypotheses, the set of names keyword_sets and the  *)
(* list signal_bindings of <<signal_name, binding>> in the order of the    *)
(* dict; an error is the message with the names it is about.               *)
(***************************************************************************)
Error(msg, name, ref) == [msg |-> msg, name |-> name, ref |-> ref]

\* the name check of one entry of a section: kind is Source, Signal, Hypothesis
NameErrors(kind, name, names) ==
    IF name = "" THEN <<Error(kind \o " missing name", "", "")>>
    ELSE IF name \in names THEN <<Error("Duplicate " \o kind \o " name", name, "")>>
    ELSE <<>>

\* the set of names after the name check of one entry
NamesAfter(name, names) ==
    IF name = "" \/ name \in names THEN names ELSE names \cup {name}

\* for source in config.sources, after the name check
SourceFieldErrors(source) ==
    (IF source.url = "" THEN <<Error("missing URL", source.name, "")>> ELSE <<>>)
    \o (IF source.type \notin {"rss", "atom"}
        THEN <<Error("invalid type", source.name, source.type)>> ELSE <<>>)
    \o (IF source.timeout <= 0 THEN <<Error("invalid timeout", source.name, "")>> ELSE <<>>)

\* for signal in config.signals, after the name check
SignalFieldErrors(signal) ==
    (IF signal.aggregation \notin {"sum", "max"}
     THEN <<Error("invalid aggregation", signal.name, signal.aggregation)>> ELSE <<>>)
    \o (IF signal.cap <= 0 THEN <<Error("invalid cap", signal.name, "")>> ELSE <<>>)

RECURSIVE UnknownRefs(_, _, _, _)
\* for x in refs: if x not in known: errors.append(...)
UnknownRefs(msg, name, refs, known) ==
    IF refs = <<>> THEN <<>>
    ELSE (IF Head(refs) \notin known THEN <<Error(msg, name, Head(refs))>> ELSE <<>>)
         \o UnknownRefs(msg, name, Tail(refs), known)

\* for hypothesis in config.hypotheses, after the name check; 1.0 is 1000
HypothesisFieldErrors(hypothesis, signal_names) ==
    (IF ~(0 <= hypothesis.prior /\ hypothesis.prior <= 1000)
     THEN <<Error("invalid prior", hypothesis.name, "")>> ELSE <<>>)
    \o UnknownRefs("references unknown signal", hypothesis.name, hypothesis.signals,
                   signal_names)

RECURSIVE SectionErrors(_, _, _, _)
\* one of the three loops over a section: the errors, in order
SectionErrors(kind, entries, names, signal_names) ==
    IF entries = <<>> THEN <<>>
    ELSE NameErrors(kind, Head(entries).name, names)
         \o (CASE kind = "Source" -> SourceFieldErrors(Head(entries))
               [] kind = "Signal" -> SignalFieldErrors(Head(entries))
               [] OTHER -> HypothesisFieldErrors(Head(entries), signal_names))
         \o SectionErrors(kind, Tail(entries), NamesAfter(Head(entries).name, names),
                          signal_names)

RECURSIVE SectionNames(_, _)
\* source_names / signal_names when the loop over the section has ended
SectionNames(entries, names) ==
    IF entries = <<>> THEN names
    ELSE SectionNames(Tail(entries), NamesAfter(Head(entries).name, names))

\* binding.get(key, default)
BindingGet(binding, key, default) ==
    IF key \in DOMAIN binding THEN binding[key] ELSE default

\* a number n as the value of window_days, and a value that is no number
Number(n) == [numeric |-> TRUE, n |-> n]

NotANumber == [numeric |-> FALSE, n |-> 0]

DEFAULT_WINDOW_DAYS == 7

\* the body of: for signal_name, binding in config.signal_bindings.items()
BindingErrors(signal_name, binding, signal_names, source_names, keyword_set_names) ==
    (IF signal_name \notin signal_names
     THEN <<Error("Signal binding for unknown signal", signal_name, "")>> ELSE <<>>)
    \o UnknownRefs("references unknown source", signal_name,
                   BindingGet(binding, "sources", <<>>), source_names)
    \o UnknownRefs("references unknown keyword set", signal_name,
                   BindingGet(binding, "keywords", <<>>), keyword_set_names)
    \o (LET window_days == BindingGet(binding, "window_days", Number(DEFAULT_WINDOW_DAYS))
        IN  IF ~window_days.numeric \/ window_days.n <= 0
            THEN <<Error("invalid window_days", signal_name, "")>> ELSE <<>>)

RECURSIVE BindingsErrors(_, _, _, _)
BindingsErrors(bindings, signal_names, source_names, keyword_set_names) ==
    IF bindings = <<>> THEN <<>>
    ELSE BindingErrors(Head(bindings)[1], Head(bindings)[2], signal_names, source_names,
                       keyword_set_names)
         \o BindingsErrors(Tail(bindings), signal_names, source_names, keyword_set_names)

\* validate_config(config)
ValidateConfig(config) ==
    LET source_names == SectionNames(config.sources, {})
        signal_names == SectionNames(config.signals, {})
    IN  SectionErrors("Source", config.sources, {}, {})
        \o SectionErrors("Signal", config.signals, {}, {})
        \o SectionErrors("Hypothesis", config.hypotheses, {}, signal_names)
        \o BindingsErrors(config.signal_bindings, signal_names, source_names,
                          config.keyword_sets)

\* if errors: raise ValueError(...), with the check of the list left out
LoadRaisesNever(config, validate) == FALSE

\* _load_config_impl: if validate: errors = validate_config(config); if errors: raise
LoadRaises(config, validate) == validate /\ ValidateConfig(config) # <<>>

(***************************************************************************)
(* alerts/alert_manager.py.  Values and thresholds are fixed point, 1.0    *)
(* is 1000.                                                                *)
(***************************************************************************)
Abs(x) == IF x < 0 THEN -x ELSE x

\* AlertManager._determine_severity: diff = abs(value - threshold) / threshold
\* if threshold > 0 else abs(value), compared with 0.5, 0.3, 0.1
DetermineSeverity(value, threshold) ==
    LET over(tenths) ==
            IF threshold > 0 THEN Abs(value - threshold) * 10 > tenths * threshold
            ELSE Abs(value) * 10 > tenths * 1000
    IN  IF over(5) THEN "critical"
        ELSE IF over(3) THEN "high"
        ELSE IF over(1) THEN "medium"
        ELSE "low"

\* AlertManager._trigger_alert: the Alert appended
TriggeredAlert(rule, value, scenario) ==
    [rule_id |-> rule.rule_id, severity |-> DetermineSeverity(value, rule.threshold),
     word |-> IF value > rule.threshold THEN "exceeds" ELSE "below",
     value |-> value, threshold |-> rule.threshold, scenario |-> scenario]

\* if rule.scenario and rule.scenario != hypothesis: continue
\* if rule.signal and rule.signal != signal: continue
FilterSkips(filter, subject) == filter \notin {NONE, ""} /\ filter # subject

\* the conditions of _check_evaluation_alerts
EvaluationCondition(rule, probability) ==
    \/ rule.condition = "greater_than" /\ probability > rule.threshold
    \/ rule.condition = "less_than" /\ probability < rule.threshold

\* the condition of _check_signal_alerts
SignalCondition(rule, value) ==
    rule.condition = "greater_than" /\ value > rule.threshold

RECURSIVE CheckEvaluationAlerts(_, _, _, _)
\* AlertManager._check_evaluation_alerts: the alerts after the loop over
\* rules.values(), ids being the keys in the order of the dict
CheckEvaluationAlerts(rules, ids, event, alerts) ==
    IF ids = <<>> THEN alerts
    ELSE LET rule == rules[Head(ids)]
         IN  CheckEvaluationAlerts(rules, Tail(ids), event,
                IF /\ rule.enabled
                   /\ ~FilterSkips(rule.scenario, event.subject)
                   /\ EvaluationCondition(rule, event.value)
                THEN Append(alerts, TriggeredAlert(rule, event.value, event.subject))
                ELSE alerts)

RECURSIVE CheckSignalAlerts(_, _, _, _)
\* AlertManager._check_signal_alerts; _trigger_alert gets signal=signal and
\* no scenario
CheckSignalAlerts(rules, ids, event, alerts) ==
    IF ids = <<>> THEN alerts
    ELSE LET rule == rules[Head(ids)]
         IN  CheckSignalAlerts(rules, Tail(ids), event,
                IF /\ rule.enabled
                   /\ ~FilterSkips(rule.signal, event.subject)
                   /\ SignalCondition(rule, event.value)
                THEN Append(alerts, TriggeredAlert(rule, event.value, NONE))
                ELSE alerts)

(***************************************************************************)
(* api/middleware/rate_limit.py                                            *)
(***************************************************************************)
\* RateLimiter(requests_per_minute=2, requests_per_hour=3)
RequestsPerMinute == 2

RequestsPerHour == 3

MINUTE == 60

HOUR == 3600

\* [ts for ts in window if now - ts < span]
WindowClean(window, now, span) == SelectSeq(window, LAMBDA ts : now - ts < span)

\* defaultdict(list)[identifier]
WindowOf(windows, identifier) ==
    IF identifier \in DOMAIN windows THEN windows[identifier] ELSE <<>>

\* the check of the minute limit left out
MinuteLimitNever(window) == FALSE

\* if len(self.minute_windows[identifier]) >= self.requests_per_minute
MinuteLimitReached(window) == Len(window) >= RequestsPerMinute

\* if len(self.hour_windows[identifier]) >= self.requests_per_hour
HourLimitReached(window) == Len(window) >= RequestsPerHour

\* RateLimiter.check_rate_limit(identifier): the limiter after the call and
\* the value returned
ApiCheckRateLimit(limiter, identifier, now) ==
    LET minute == WindowClean(WindowOf(limiter.minute_windows, identifier), now, MINUTE)
        hour == WindowClean(WindowOf(limiter.hour_windows, identifier), now, HOUR)
        allowed == ~MinuteLimitReached(minute) /\ ~HourLimitReached(hour)
    IN  [minute_windows |-> Put(limiter.minute_windows, identifier,
                                IF allowed THEN Append(minute, now) ELSE minute),
         hour_windows |-> Put(limiter.hour_windows, identifier,
                              IF allowed THEN Append(hour, now) ELSE hour),
         allowed |-> allowed,
         error |-> IF MinuteLimitReached(minute) THEN "Rate limit exceeded: per minute"
                   ELSE IF HourLimitReached(hour) THEN "Rate limit exceeded: per hour"
                   ELSE NONE]

(***************************************************************************)
(* The network.  A GET ends with a non-empty body, an empty body, a        *)
(* timeout, a non-200 status or an oversize response.                      *)
(***************************************************************************)
Bodies == {"feedA", "feedB", "feedC"}
EMPTY == ""
NetOutcomes == Bodies \cup {"empty", "timeout", "status", "oversize"}
FetchOutcomes == NetOutcomes \ {"feedC"}

\* bool(data) of Optional[bytes]
Truthy(data) == data # NONE /\ data # EMPTY

\* security.fetch_url_secure: data returned, steps run, store and history after
FetchUrlSecureResult(url, allowed_netlocs, net, store, hist, now) ==
    IF ~ValidateUrl(url, allowed_netlocs)
    THEN [data |-> NONE, steps |-> <<"validate">>, limited |-> FALSE,
          store |-> store, hist |-> hist]
    ELSE IF ~RateAllowed(store, url, now)
    THEN [data |-> NONE, steps |-> <<"validate", "rate">>, limited |-> TRUE,
          store |-> RateStore(store, url, now), hist |-> RateHistory(hist, store, url, now)]
    ELSE [data |-> IF net \in Bodies THEN net ELSE IF net = "empty" THEN EMPTY ELSE NONE,
          steps |-> <<"validate", "rate", "http">>, limited |-> FALSE,
          store |-> RateStore(store, url, now), hist |-> RateHistory(hist, store, url, now)]

\* fetcher.fetch_single_feed (thread-pool fetcher)
FetchSingleFeedResult(url, allowed_netlocs, net, store, hist, cache, now) ==
    LET cached_data == CacheValue(cache, url, now)
        cache1 == CacheAfterGet(cache, url, now)
        r == FetchUrlSecureResult(url, allowed_netlocs, net, store, hist, now)
    IN  IF cached_data # NONE
        THEN [success |-> TRUE, data |-> cached_data, error |-> NONE,
              steps |-> <<"cache">>, limited |-> FALSE,
              store |-> store, hist |-> hist, cache |-> cache1]
        ELSE IF Truthy(r.data)
        THEN [success |-> TRUE, data |-> r.data, error |-> NONE,
              steps |-> <<"cache">> \o r.steps, limited |-> r.limited,
              store |-> r.store, hist |-> r.hist,
              cache |-> CacheSet(cache1, url, r.data, FEED_TTL, now)]
        ELSE [success |-> FALSE, data |-> NONE, error |-> "Fetch returned None",
              steps |-> <<"cache">> \o r.steps, limited |-> r.limited,
              store |-> r.store, hist |-> r.hist, cache |-> cache1]

\* async_fetcher.AsyncFetcher.fetch_single_feed
AsyncFetchSingleFeedResult(url, allowed_netlocs, net, store, hist, cache, now) ==
    LET store1 == RateStore(store, url, now)
        hist1 == RateHistory(hist, store, url, now)
        cached_data == CacheValue(cache, url, now)
        cache1 == CacheAfterGet(cache, url, now)
        fail(e, st, s, h, c) ==
            [success |-> FALSE, data |-> NONE, error |-> e, steps |-> st,
             limited |-> FALSE, store |-> s, hist |-> h, cache |-> c]
    IN  IF ~ValidateUrl(url, allowed_netlocs)
        THEN fail("URL validation failed", <<"validate">>, store, hist, cache)
        ELSE IF ~RateAllowed(store, url, now)
        THEN [fail("Rate limit exceeded", <<"validate", "rate">>, store1, hist1, cache)
                EXCEPT !.limited = TRUE]
        ELSE IF cached_data # NONE
        THEN [success |-> TRUE, data |-> cached_data, error |-> NONE,
              steps |-> <<"validate", "rate", "cache">>, limited |-> FALSE,
              store |-> store1, hist |-> hist1, cache |-> cache1]
        ELSE LET st == <<"validate", "rate", "cache", "http">>
             IN  CASE net \in Bodies ->
                        [success |-> TRUE, data |-> net, error |-> NONE, steps |-> st,
                         limited |-> FALSE, store |-> store1, hist |-> hist1,
                         cache |-> CacheSet(cache1, url, net, FEED_TTL, now)]
                   [] net = "empty" -> fail("Empty response", st, store1, hist1, cache1)
                   [] net = "oversize" -> fail("Response too large", st, store1, hist1, cache1)
                   [] net = "timeout" -> fail("Timeout", st, store1, hist1, cache1)
                   [] OTHER -> fail("ClientResponseError", st, store1, hist1, cache1)

(***************************************************************************)
(* database.py / async_database.py: the store.                             *)
(*                                                                         *)
(* Every table has INTEGER PRIMARY KEY AUTOINCREMENT: a new row gets       *)
(* sqlite_sequence + 1.  INSERT OR IGNORE on feed_items advances           *)
(* sqlite_sequence also when the row is ignored.  cursor.lastrowid is the  *)
(* connection's sqlite3_last_insert_rowid(): the rowid of the last row the *)
(* connection inserted, in any table; 0 on a connection that inserted      *)
(* nothing.  Database keeps one connection per thread, AsyncDatabase opens *)
(* a connection per call.  Text is a sequence of characters.               *)
(***************************************************************************)
\* hashlib.md5(...).hexdigest(), taken as collision free
MD5(text) == <<"md5", text>>

\* content_hash = md5(f"{title}{summary}")
ContentHash(title, summary) == MD5(title \o summary)

EmptyDb ==
    [feed_items |-> <<>>, feed_seq |-> 0,
     signal_values |-> <<>>, sv_seq |-> 0,
     hypothesis_evaluations |-> <<>>, he_seq |-> 0,
     source_status |-> <<>>, ss_seq |-> 0,
     rowid |-> 0, calls |-> 0]

\* SELECT id FROM feed_items WHERE source_name = ? AND content_hash = ?  (0: no row)
ExistingId(d, source_name, title, summary) ==
    LET hits == {i \in DOMAIN d.feed_items :
                    /\ d.feed_items[i].source_name = source_name
                    /\ d.feed_items[i].content_hash = ContentHash(title, summary)}
    IN  IF hits = {} THEN 0 ELSE d.feed_items[CHOOSE i \in hits : TRUE].id

\* the UNIQUE(source_name, content_hash) constraint left out: a plain INSERT
FeedConflictNever(d, source_name, title, summary) == FALSE

\* INSERT OR IGNORE: does UNIQUE(source_name, content_hash) reject the row
FeedConflict(d, source_name, title, summary) ==
    ExistingId(d, source_name, title, summary) # 0

\* the tables after INSERT OR IGNORE INTO feed_items ...; commit
DbStoreFeedItem(d, source_name, url, title, summary, now) ==
    IF FeedConflict(d, source_name, title, summary)
    THEN [d EXCEPT !.feed_seq = @ + 1, !.calls = @ + 1]
    ELSE [d EXCEPT !.feed_seq = @ + 1, !.calls = @ + 1,
                   !.rowid = d.feed_seq + 1,
                   !.feed_items = Append(@,
                        [id |-> d.feed_seq + 1, source_name |-> source_name, url |-> url,
                         title |-> title, summary |-> summary, fetched_at |-> now,
                         content_hash |-> ContentHash(title, summary)])]

\* Database.store_feed_item: return cursor.lastrowid
StoreFeedItemReturn(d, source_name, url, title, summary, now) ==
    DbStoreFeedItem(d, source_name, url, title, summary, now).rowid

\* AsyncDatabase.store_feed_item: cursor.lastrowid of a fresh connection
AsyncStoreFeedItemReturn(d, source_name, url, title, summary, now) ==
    DbStoreFeedItem([d EXCEPT !.rowid = 0], source_name, url, title, summary, now).rowid

\* Database.store_signal_value
DbStoreSignalValue(d, signal_name, value, country, window_days, now) ==
    [d EXCEPT !.sv_seq = @ + 1, !.calls = @ + 1, !.rowid = d.sv_seq + 1,
              !.signal_values = Append(@,
                    [id |-> d.sv_seq + 1, signal_name |-> signal_name, value |-> value,
                     country |-> country, window_days |-> window_days,
                     computed_at |-> now])]

\* Database.store_hypothesis_evaluation
DbStoreHypothesisEvaluation(d, hypothesis_name, probability, country, mean, low, high, now) ==
    [d EXCEPT !.he_seq = @ + 1, !.calls = @ + 1, !.rowid = d.he_seq + 1,
              !.hypothesis_evaluations = Append(@,
                    [id |-> d.he_seq + 1, hypothesis_name |-> hypothesis_name,
                     probability |-> probability, country |-> country,
                     monte_carlo_mean |-> mean, monte_carlo_low |-> low,
                     monte_carlo_high |-> high, evaluated_at |-> now])]

\* Database.update_source_status with last_error kept by a success
DbUpdateSourceStatusKeep(d, source_name, success, error, now) ==
    IF source_name \in DOMAIN d.source_status
    THEN LET old == d.source_status[source_name]
         IN  [d EXCEPT !.calls = @ + 1,
                       !.source_status = Put(@, source_name,
                            IF success
                            THEN [old EXCEPT !.last_fetch_at = now, !.last_success_at = now,
                                             !.fetch_count = @ + 1]
                            ELSE [old EXCEPT !.last_fetch_at = now, !.error_count = @ + 1,
                                             !.last_error = error, !.fetch_count = @ + 1])]
    ELSE [d EXCEPT !.calls = @ + 1, !.ss_seq = @ + 1, !.rowid = d.ss_seq + 1,
                   !.source_status = Put(@, source_name,
                        [id |-> d.ss_seq + 1, last_fetch_at |-> now,
                         last_success_at |-> IF success THEN now ELSE -1,
                         fetch_count |-> 1,
                         error_count |-> IF success THEN 0 ELSE 1,
                         last_error |-> IF success THEN NONE ELSE error])]

\* Database.update_source_status
DbUpdateSourceStatus(d, source_name, success, error, now) ==
    IF source_name \in DOMAIN d.source_status
    THEN LET old == d.source_status[source_name]
         IN  [d EXCEPT !.calls = @ + 1,
                       !.source_status = Put(@, source_name,
                            IF success
                            THEN [old EXCEPT !.last_fetch_at = now, !.last_success_at = now,
                                             !.fetch_count = @ + 1, !.last_error = NONE]
                            ELSE [old EXCEPT !.last_fetch_at = now, !.error_count = @ + 1,
                                             !.last_error = error, !.fetch_count = @ + 1])]
    ELSE [d EXCEPT !.calls = @ + 1, !.ss_seq = @ + 1, !.rowid = d.ss_seq + 1,
                   !.source_status = Put(@, source_name,
                        [id |-> d.ss_seq + 1, last_fetch_at |-> now,
                         last_success_at |-> IF success THEN now ELSE -1,
                         fetch_count |-> 1,
                         error_count |-> IF success THEN 0 ELSE 1,
                         last_error |-> IF success THEN NONE ELSE error])]

\* timedelta(days=1) in seconds
SecondsPerDay == 86400

\* the characters between date and time of a timestamp text: ' ' and 'T'
Space == 32

LetterT == 84

\* DEFAULT CURRENT_TIMESTAMP: the text 'YYYY-MM-DD HH:MM:SS', as the date,
\* the separator and the time of day
CurrentTimestamp(now) == <<now \div SecondsPerDay, Space, now % SecondsPerDay>>

\* datetime.isoformat(): the text 'YYYY-MM-DDTHH:MM:SS', as the date, the
\* separator and the time of day
IsoFormat(t) == <<t \div SecondsPerDay, LetterT, t % SecondsPerDay>>

\* a < b between two timestamp texts: SQLite compares TEXT byte by byte
TextLess(a, b) ==
    \/ a[1] < b[1]
    \/ a[1] = b[1] /\ a[2] < b[2]
    \/ a[1] = b[1] /\ a[2] = b[2] /\ a[3] < b[3]

\* cutoff = (datetime.utcnow() - timedelta(days=days)).isoformat()
Cutoff(now, days) == IsoFormat(now - days * SecondsPerDay)

RECURSIVE SelectRows(_, _, _)
\* the rows of a table that DELETE ... WHERE col < ? leaves, in rowid order;
\* old(row) is the WHERE clause
SelectRows(rows, created, cutoff) ==
    IF rows = <<>> THEN <<>>
    ELSE LET rest == SelectRows(Tail(rows), created, cutoff)
         IN  IF TextLess(CurrentTimestamp(Head(rows)[created]), cutoff)
             THEN rest ELSE <<Head(rows)>> \o rest

\* Database.cleanup_old_data: the tables after the three DELETEs and commit
DbCleanupOldData(d, days, now) ==
    [d EXCEPT !.feed_items = SelectRows(@, "fetched_at", Cutoff(now, days)),
              !.signal_values = SelectRows(@, "computed_at", Cutoff(now, days)),
              !.hypothesis_evaluations = SelectRows(@, "evaluated_at", Cutoff(now, days))]

\* Database.cleanup_old_data: the cursor.rowcount of each DELETE
CleanupOldDataReturn(d, days, now) ==
    [feed_items |-> Len(d.feed_items) - Len(DbCleanupOldData(d, days, now).feed_items),
     signals |-> Len(d.signal_values) - Len(DbCleanupOldData(d, days, now).signal_values),
     evaluations |-> Len(d.hypothesis_evaluations)
                        - Len(DbCleanupOldData(d, days, now).hypothesis_evaluations)]

(***************************************************************************)
(* security/audit.py and compliance/gdpr.py: the table audit_log           *)
(***************************************************************************)
\* AuditLogger.log_event: INSERT INTO audit_log ...; the timestamp is
\* datetime.utcnow().isoformat() + "Z"
AuditInsert(rows, id, event, now) ==
    Append(rows, [id |-> id, timestamp |-> now, event_type |-> event.event_type,
                  user_id |-> event.user_id, api_key_id |-> event.api_key_id,
                  action |-> event.action, resource |-> event.resource,
                  result |-> event.result, ip_address |-> event.ip_address,
                  user_agent |-> event.user_agent])

\* WHERE user_id = ? OR api_key_id = ?
AuditMatches(row, user_id) == row.user_id = user_id \/ row.api_key_id = user_id

\* GDPRCompliance.anonymize_user_data: UPDATE audit_log SET user_id = NULL,
\* api_key_id = NULL, ip_address = NULL, user_agent = NULL WHERE ...
AuditAnonymize(rows, user_id) ==
    [i \in DOMAIN rows |->
        IF AuditMatches(rows[i], user_id)
        THEN [rows[i] EXCEPT !.user_id = NONE, !.api_key_id = NONE, !.ip_address = NONE,
                             !.user_agent = NONE]
        ELSE rows[i]]

\* GDPRCompliance.delete_user_data: DELETE FROM audit_log WHERE ...
AuditDeleteUser(rows, user_id) == SelectSeq(rows, LAMBDA row : ~AuditMatches(row, user_id))

\* GDPRCompliance.apply_data_retention_policy: DELETE FROM audit_log WHERE
\* timestamp < ?; both texts are isoformat(), the one of the row followed by "Z"
AuditRetention(rows, days, now) ==
    SelectSeq(rows, LAMBDA row : ~TextLess(IsoFormat(row.timestamp), Cutoff(now, days)))

(***************************************************************************)
(* pam_world.py: the configuration under test.  Real numbers are fixed     *)
(* point, 1.0 is SCALE; text is a sequence of characters.                  *)
(***************************************************************************)
SCALE == 1000

SourceDefs ==
    [s1 |-> [url |-> UrlFeed, type |-> "rss"],
     s2 |-> [url |-> UrlNews, type |-> "atom"]]

Sources == DOMAIN SourceDefs

SourceUrl(source_name) == SourceDefs[source_name].url

\* weight in R, aggregation in {sum, max}, cap > 0 (validate_config)
SignalDefs ==
    [single  |-> [weight |-> 2000,     aggregation |-> "sum", cap |-> 400],
     summed  |-> [weight |-> 40000,    aggregation |-> "sum", cap |-> 1000],
     peak    |-> [weight |-> -1500000, aggregation |-> "max", cap |-> 600],
     unbound |-> [weight |-> 1000,     aggregation |-> "sum", cap |-> 1000]]

Signals == DOMAIN SignalDefs

\* " War" and a blank keyword
KeywordSets == [conflict |-> << <<" ", "W", "a", "r">>, <<" ">> >>]

\* the signal "unbound" has no binding
SignalBindings ==
    [single |-> [sources |-> <<"s1">>, keywords |-> <<"conflict">>, window_days |-> 7],
     summed |-> [sources |-> <<"s1", "s2">>, keywords |-> <<"conflict">>, window_days |-> 7],
     peak   |-> [sources |-> <<"s1", "s2">>, keywords |-> <<"conflict">>, window_days |-> 7]]

\* prior in [0, 1] (validate_config)
HypothesisDefs ==
    [h1    |-> [prior |-> 50,   signals |-> <<"single">>],
     h_sat |-> [prior |-> 500,  signals |-> <<"summed">>],
     h_neg |-> [prior |-> 0,    signals |-> <<"peak">>],
     h_two |-> [prior |-> 1000, signals |-> <<"single", "unbound">>]]

Hypotheses == DOMAIN HypothesisDefs

\* security.get_allowed_netlocs_from_config
GetAllowedNetlocsFromConfig(sources) ==
    Whitelist({Hostname(sources[n].url) : n \in DOMAIN sources}
              \cup {Tail(Hostname(sources[n].url)) :
                        n \in {m \in DOMAIN sources :
                                 StartsWith(Hostname(sources[m].url), <<"www">>)}})

\* WorldPAM.allowed_netlocs
AllowedNetlocs == GetAllowedNetlocsFromConfig(SourceDefs)

(***************************************************************************)
(* pam_world.py: parsing and scoring                                       *)
(***************************************************************************)
Entry(tag, title, summary, pub_date) ==
    [tag |-> tag, title |-> title, summary |-> summary, pub_date |-> pub_date]

\* the documents the network serves: "feedA" is RSS with four items titled
\* "war", one titled "Software" and one titled "peace"; "feedC" is RSS with the
\* one item "peace"; "feedB" is Atom with nine entries titled "war".  Each
\* entry carries a publication date.
Document(data) ==
    IF data = "feedC"
    THEN <<Entry("item", <<"p", "e", "a", "c", "e">>, <<>>, "today")>>
    ELSE IF data = "feedA"
    THEN [i \in 1..6 |->
            IF i <= 4 THEN Entry("item", <<"w", "a", "r">>, <<>>, "today")
            ELSE IF i = 5
            THEN Entry("item", <<"S", "o", "f", "t", "w", "a", "r", "e">>, <<"x">>, "old")
            ELSE Entry("item", <<"p", "e", "a", "c", "e">>, <<>>, "today")]
    ELSE [i \in 1..9 |-> Entry("entry", <<"w", "a", "r">>, <<>>, "today")]

\* parse_feed_bytes: the items keep title and summary only
ParseFeedBytes(feed_type, data) ==
    IF ~Truthy(data) THEN <<>>
    ELSE LET tag == IF feed_type = "rss" THEN "item" ELSE "entry"
             entries == SelectSeq(Document(data), LAMBDA e : e.tag = tag)
         IN  [i \in 1..Len(entries) |->
                [title |-> entries[i].title, summary |-> entries[i].summary]]

\* str.lower
Lower(text) ==
    [i \in 1..Len(text) |->
        CASE text[i] = "S" -> "s" [] text[i] = "W" -> "w" [] OTHER -> text[i]]

\* str.strip
RECURSIVE Strip(_)
Strip(text) ==
    IF text = <<>> THEN <<>>
    ELSE IF Head(text) = " " THEN Strip(Tail(text))
    ELSE IF text[Len(text)] = " " THEN Strip(SubSeq(text, 1, Len(text) - 1))
    ELSE text

\* k in text
Contains(text, k) ==
    \E i \in 0..(Len(text) - Len(k)) : SubSeq(text, i + 1, i + Len(k)) = k

\* it.get("published") or ""
Published(it) == IF "published" \in DOMAIN it THEN it.published ELSE ""

\* validators.parse_date of the empty string
ParseDate(date_str, window_days) == IF date_str = "" THEN NONE ELSE date_str

\* validators.is_within_window
IsWithinWindow(date_obj, window_days) == date_obj = NONE \/ date_obj = "today"

\* floor of the square root of x, known to lie in lo..hi
RECURSIVE SqrtBetween(_, _, _)
SqrtBetween(x, lo, hi) ==
    IF lo = hi THEN lo
    ELSE IF ((lo + hi + 1) \div 2) * ((lo + hi + 1) \div 2) <= x
         THEN SqrtBetween(x, (lo + hi + 1) \div 2, hi)
         ELSE SqrtBetween(x, lo, ((lo + hi + 1) \div 2) - 1)

\* math.sqrt, rounded down
ISqrt(x) == SqrtBetween(x, 0, 2 * SCALE)

Min(a, b) == IF a <= b THEN a ELSE b

Max(a, b) == IF a >= b THEN a ELSE b

\* normalized_keyword_hits
NormalizedKeywordHits(items, keywords, window_days) ==
    IF items = <<>> \/ keywords = <<>> THEN 0
    ELSE LET kw == {Lower(Strip(keywords[j])) :
                        j \in {m \in DOMAIN keywords : Strip(keywords[m]) # <<>>}}
             text(it) == Lower(it.title \o <<" ">> \o it.summary)
             hits == Cardinality({i \in DOMAIN items :
                        /\ \E k \in kw : Contains(text(items[i]), k)
                        /\ IsWithinWindow(ParseDate(Published(items[i]), window_days),
                                          window_days)})
         IN  Min(ISqrt((hits * SCALE * SCALE) \div 20), SCALE)

(***************************************************************************)
(* pam_world.py: WorldPAM.compute_signal and compute_signal_async.  The    *)
(* world w is [store, hist, cache, db]: the rate-limit store, its history,  *)
(* the feed cache and the database.  net[src] is what the network answers  *)
(* for the source during the call.  The sources of the configuration have  *)
(* distinct URLs and hosts, so the parallel fetches touch disjoint buckets *)
(* and cache keys and are taken in list order.                             *)
(***************************************************************************)
\* the fetcher of the engine: fetcher.fetch_single_feed or AsyncFetcher.fetch_single_feed
FetchOne(is_async, url, allowed_netlocs, n, w, now) ==
    IF is_async
    THEN AsyncFetchSingleFeedResult(url, allowed_netlocs, n, w.store, w.hist, w.cache, now)
    ELSE FetchSingleFeedResult(url, allowed_netlocs, n, w.store, w.hist, w.cache, now)

\* fetch_feeds_parallel / fetch_feeds_async: the world after, and results by source name
RECURSIVE FetchFeeds(_, _, _, _, _, _, _)
FetchFeeds(is_async, srcs, allowed_netlocs, net, w, results, now) ==
    IF srcs = <<>> THEN [w |-> w, results |-> results]
    ELSE LET Rest(r) ==
                FetchFeeds(is_async, Tail(srcs), allowed_netlocs, net,
                           [w EXCEPT !.store = r.store, !.hist = r.hist, !.cache = r.cache],
                           Put(results, Head(srcs),
                               [success |-> r.success, data |-> r.data, error |-> r.error,
                                steps |-> r.steps]),
                           now)
         IN  Rest(FetchOne(is_async, SourceUrl(Head(srcs)), allowed_netlocs,
                           net[Head(srcs)], w, now))

\* AsyncDatabase runs each statement on a connection of its own
DbOp(is_async, d, after) == IF is_async THEN [after EXCEPT !.rowid = d.rowid] ELSE after

\* for item in items: db.store_feed_item(...)
RECURSIVE StoreItems(_, _, _, _, _)
StoreItems(is_async, d, src, items, now) ==
    IF items = <<>> THEN d
    ELSE StoreItems(is_async,
                    DbOp(is_async, d,
                         DbStoreFeedItem(d, src, SourceUrl(src), Head(items).title,
                                         Head(items).summary, now)),
                    src, Tail(items), now)

\* result and result.success and result.data
Usable(results, src) ==
    /\ src \in DOMAIN results
    /\ results[src].success
    /\ Truthy(results[src].data)

\* vals.append(0.0) with the failure carried into the aggregation
FailedValueCarried(results, src) == SCALE

\* vals.append(0.0)
FailedValue(results, src) == 0

\* the value one bound source appends to vals
SourceValue(results, src, keywords, window_days) ==
    IF Usable(results, src)
    THEN NormalizedKeywordHits(ParseFeedBytes(SourceDefs[src].type, results[src].data),
                               keywords, window_days)
    ELSE FailedValue(results, src)

\* the database after the loop body for one bound source
SourceStored(is_async, d, results, src, now) ==
    IF Usable(results, src)
    THEN LET Status(d1) == DbOp(is_async, d1, DbUpdateSourceStatus(d1, src, TRUE, NONE, now))
         IN  Status(StoreItems(is_async, d, src,
                               ParseFeedBytes(SourceDefs[src].type, results[src].data), now))
    ELSE DbOp(is_async, d,
              DbUpdateSourceStatus(d, src, FALSE,
                                   IF src \in DOMAIN results THEN results[src].error
                                   ELSE "Unknown error", now))

\* for src_name in srcs: ...   (vals, and the database when a Store is bound)
RECURSIVE ProcessResults(_, _, _, _, _, _, _, _, _)
ProcessResults(is_async, bound, srcs, results, keywords, window_days, vals, d, now) ==
    IF srcs = <<>> THEN [vals |-> vals, db |-> d]
    ELSE ProcessResults(is_async, bound, Tail(srcs), results, keywords, window_days,
                        Append(vals, SourceValue(results, Head(srcs), keywords, window_days)),
                        IF bound THEN SourceStored(is_async, d, results, Head(srcs), now)
                        ELSE d,
                        now)

RECURSIVE SumSeq(_)
SumSeq(vals) == IF vals = <<>> THEN 0 ELSE Head(vals) + SumSeq(Tail(vals))

RECURSIVE MaxSeq(_)
MaxSeq(vals) ==
    IF Len(vals) = 1 THEN Head(vals) ELSE Max(Head(vals), MaxSeq(Tail(vals)))

\* max(vals) if aggregation == "max" else sum(vals)
Aggregate(vals, aggregation) == IF aggregation = "max" THEN MaxSeq(vals) ELSE SumSeq(vals)

\* the aggregation returned without the clamp
ClampedLoose(vals, sig) == Aggregate(vals, sig.aggregation)

\* min(val, sig.cap)
Clamped(vals, sig) == Min(Aggregate(vals, sig.aggregation), sig.cap)

\* ''.join of keyword_sets[s] for s in bind["keywords"]
RECURSIVE Keywords(_)
Keywords(kw_sets) ==
    IF kw_sets = <<>> THEN <<>> ELSE KeywordSets[Head(kw_sets)] \o Keywords(Tail(kw_sets))

\* cfg.signal_bindings.get(sig_name, {}) with the defaults of its .get calls
Binding(sig_name) ==
    IF sig_name \in DOMAIN SignalBindings THEN SignalBindings[sig_name]
    ELSE [sources |-> <<>>, keywords |-> <<>>, window_days |-> 7]

\* WorldPAM.compute_signal (is_async: compute_signal_async); bound: a Store is bound
ComputeSignalResult(is_async, bound, sig_name, net, w, now) ==
    LET bind == Binding(sig_name)
        srcs == bind.sources
        Return(f, pr, final_val) ==
            [value |-> IF pr.vals = <<>> THEN 0 ELSE final_val,
             vals |-> pr.vals, results |-> f.results,
             persisted |-> bound /\ pr.vals # <<>>,
             w |-> [f.w EXCEPT !.db =
                        IF bound /\ pr.vals # <<>>
                        THEN DbOp(is_async, pr.db,
                                  DbStoreSignalValue(pr.db, sig_name, final_val, NONE,
                                                     bind.window_days, now))
                        ELSE pr.db]]
        Persist(f, pr) ==
            Return(f, pr, IF pr.vals = <<>> THEN 0 ELSE Clamped(pr.vals, SignalDefs[sig_name]))
        Process(f) ==
            Persist(f, ProcessResults(is_async, bound, srcs, f.results, Keywords(bind.keywords),
                                      bind.window_days, <<>>, f.w.db, now))
    IN  Process(FetchFeeds(is_async, srcs, AllowedNetlocs, net, w, <<>>, now))

(***************************************************************************)
(* pam_world.py: the math helpers and WorldPAM.evaluate.  A double         *)
(* resolves what 1/SCALE does not: 1.0 / (1.0 + exp(-x)) is below 1.0 for  *)
(* x < 53 ln 2 and exactly 1.0 from there on, and it is above 0.0 whenever *)
(* exp(-x) does not overflow; math.exp raises OverflowError above 709.78.  *)
(***************************************************************************)
FP == 10000              \* the precision exp is computed in
E_INV == 3679            \* exp(-1) in 1/FP
ONE_FROM == 36737        \* 53 ln 2 in 1/SCALE
EXP_MAX == 709782        \* the largest argument of math.exp in 1/SCALE
LOGIT_CLAMP == 20723     \* log((1 - 1e-9) / 1e-9) in 1/SCALE

\* exp(-k) for a natural k, in 1/FP
RECURSIVE PowEInv(_)
PowEInv(k) ==
    IF k = 0 THEN FP ELSE IF k > 10 THEN 0 ELSE (PowEInv(k - 1) * E_INV) \div FP

\* exp(-t) for 0 <= t < 1, t in 1/FP: the series up to the fifth power
ExpNegFrac(t) ==
    LET t2 == (t * t) \div FP
        t3 == (t2 * t) \div FP
        t4 == (t3 * t) \div FP
        t5 == (t4 * t) \div FP
    IN  FP - t + (t2 \div 2) - (t3 \div 6) + (t4 \div 24) - (t5 \div 120)

\* exp(-x) for x >= 0 in 1/SCALE, in 1/FP
ExpNeg(x) == (PowEInv(x \div SCALE) * ExpNegFrac((x % SCALE) * (FP \div SCALE))) \div FP

\* sigmoid raises OverflowError
SigmoidRaises(x) == -x > EXP_MAX

\* sigmoid
Sigmoid(x) ==
    IF x >= ONE_FROM THEN SCALE
    ELSE LET q == ExpNeg(IF x >= 0 THEN x ELSE -x)
         IN  Max(1, Min(SCALE - 1, IF x >= 0 THEN (SCALE * FP) \div (FP + q)
                                              ELSE (SCALE * q) \div (FP + q)))

\* logit: math.log(p / (1 - p)) of the priors of HypothesisDefs
Logit(p) ==
    IF p <= 0 THEN -LOGIT_CLAMP
    ELSE IF p >= SCALE THEN LOGIT_CLAMP
    ELSE CASE p = 50 -> -2944
           [] p = 500 -> 0

\* for s in hyp.signals: val = compute_signal(s); z += weight * val; details.append(...)
RECURSIVE EvalSignals(_, _, _, _, _, _, _, _)
EvalSignals(is_async, bound, sigs, net, w, z, details, now) ==
    IF sigs = <<>> THEN [w |-> w, z |-> z, details |-> details]
    ELSE LET weight == SignalDefs[Head(sigs)].weight
             Rest(r) ==
                EvalSignals(is_async, bound, Tail(sigs), net, r.w,
                            z + ((weight * r.value) \div SCALE),
                            Append(details, [signal |-> Head(sigs), val |-> r.value,
                                             weight |-> weight]),
                            now)
         IN  Rest(ComputeSignalResult(is_async, bound, Head(sigs), net, w, now))

\* random.random() < val can come out as the draws say
Feasible(details, draws) ==
    \A t \in DOMAIN draws : \A j \in DOMAIN details :
        /\ draws[t][j] => details[j].val > 0
        /\ ~draws[t][j] => details[j].val < SCALE

\* z2 of one trial: z2 += w * v
TrialZ(prior, details, draw) ==
    Logit(prior) + SumSeq([j \in DOMAIN details |->
                                IF draw[j] THEN details[j].weight ELSE 0])

\* sims.sort() left out
SortedKept(sims) == sims

\* sims.sort()
Sorted(sims) == SortSeq(sims, LAMBDA a, b : a < b)

\* WorldPAM.evaluate (is_async: evaluate_async); -1 is None
EvaluateResult(is_async, bound, hyp_name, simulate, draws, net, w, now) ==
    LET hyp == HypothesisDefs[hyp_name]
        Return(e, zs, p, sims, mean, low, high) ==
            [raised |-> FALSE, z |-> e.z, zs |-> zs, p |-> p, mean |-> mean, low |-> low,
             high |-> high, sims |-> sims, details |-> e.details,
             w |-> IF bound
                   THEN [e.w EXCEPT !.db =
                            DbOp(is_async, e.w.db,
                                 DbStoreHypothesisEvaluation(e.w.db, hyp_name, p, NONE,
                                                             mean, low, high, now))]
                   ELSE e.w]
        Summarise(e, zs, sims) ==
            IF simulate > 0
            THEN Return(e, zs, Sigmoid(e.z), sims, SumSeq(sims) \div Len(sims),
                        sims[((5 * simulate) \div 100) + 1],
                        sims[((95 * simulate) \div 100) + 1])
            ELSE Return(e, zs, Sigmoid(e.z), sims, -1, -1, -1)
        Simulate(e, zs) ==
            IF SigmoidRaises(e.z) \/ \E t \in 1..simulate : SigmoidRaises(zs[t])
            THEN [raised |-> TRUE, z |-> e.z, zs |-> zs, p |-> -1, mean |-> -1, low |-> -1,
                  high |-> -1, sims |-> <<>>, details |-> e.details, w |-> e.w]
            ELSE Summarise(e, zs, Sorted([t \in 1..simulate |-> Sigmoid(zs[t])]))
        Trials(e) ==
            Simulate(e, [t \in 1..simulate |-> TrialZ(hyp.prior, e.details, draws[t])])
    IN  Trials(EvalSignals(is_async, bound, hyp.signals, net, w, Logit(hyp.prior), <<>>, now))

(***************************************************************************)
(* streaming/feed_processor.py: FeedProcessor                              *)
(***************************************************************************)
\* "".join(f"{title}{summary}" for item in items)
RECURSIVE JoinItems(_)
JoinItems(items) ==
    IF items = <<>> THEN <<>>
    ELSE Head(items).title \o Head(items).summary \o JoinItems(Tail(items))

\* FeedProcessor._calculate_feed_hash: the first 10 items
CalculateFeedHash(items) == MD5(JoinItems(SubSeq(items, 1, Min(10, Len(items)))))

\* current_hash != last_hash taken against a stored hash only
HashChangedAfterBaseline(hashes, source_name, current_hash) ==
    /\ source_name \in DOMAIN hashes
    /\ current_hash # hashes[source_name]

\* current_hash != last_hash, last_hash = self.last_hashes.get(source_name)
HashChanged(hashes, source_name, current_hash) ==
    current_hash # Get(hashes, source_name, NONE)

\* FeedProcessor.process_feed
ProcessFeedResult(source_name, url, feed_type, net, store, hist, cache, hashes, now) ==
    LET r == AsyncFetchSingleFeedResult(url, NoWhitelist, net, store, hist, cache, now)
        items == ParseFeedBytes(feed_type, r.data)
        current_hash == CalculateFeedHash(items)
        quiet(parsed) == [updated |-> FALSE, parsed |-> parsed, hashes |-> hashes,
                          hash |-> IF parsed THEN current_hash ELSE <<>>,
                          events |-> <<>>, store |-> r.store, hist |-> r.hist,
                          cache |-> r.cache]
    IN  IF ~r.success \/ ~Truthy(r.data) THEN quiet(FALSE)
        ELSE IF items = <<>> THEN quiet(FALSE)
        ELSE IF HashChanged(hashes, source_name, current_hash)
        THEN [updated |-> TRUE, parsed |-> TRUE,
              hashes |-> Put(hashes, source_name, current_hash),
              hash |-> current_hash,
              events |-> <<[event_type |-> "feed_updated", source |-> source_name,
                            url |-> url, item_count |-> Len(items),
                            items |-> SubSeq(items, 1, Min(5, Len(items)))]>>,
              store |-> r.store, hist |-> r.hist, cache |-> r.cache]
        ELSE quiet(TRUE)

(***************************************************************************)
(* jobs/scheduler.py: TaskScheduler over the asyncio event loop.  A task   *)
(* is at one of: "start" (not yet run, start_immediately), "start_sleep"   *)
(* (not yet run, not start_immediately), "sleep" (awaiting asyncio.sleep,  *)
(* timer pending), "timer" (the sleep is over, the task is ready),         *)
(* "handler" (inside await func()), "done".                                *)
(***************************************************************************)
JobIds == {"j1", "j2"}

Funcs == {"f", "g"}

\* asyncio.create_task(run_periodic())
NewTask(job_id, func, start_immediately) ==
    [job |-> job_id, pos |-> IF start_immediately THEN "start" ELSE "start_sleep",
     must_cancel |-> FALSE, raised |-> FALSE]

\* Task.cancel(): requests CancelledError at the task's next step; False on a done task
TaskCancel(ts, t) ==
    IF ts[t].pos = "done" THEN ts ELSE [ts EXCEPT ![t].must_cancel = TRUE]

\* schedule_periodic without the cancel() of the task already scheduled
CancelPriorSkipped(ts, tmap, job_id) == ts

\* if job_id in self.tasks: self.tasks[job_id].cancel()
CancelPrior(ts, tmap, job_id) ==
    IF tmap[job_id] # 0 THEN TaskCancel(ts, tmap[job_id]) ELSE ts

\* run_periodic without the try/except around await func()
HandlerFinishedUncaught(t, outcome) ==
    [t EXCEPT !.pos = IF outcome = "raise" THEN "done" ELSE "sleep",
              !.raised = (outcome = "raise")]

\* except Exception: log; then await asyncio.sleep(interval_seconds)
HandlerFinished(t, outcome) ==
    [t EXCEPT !.pos = "sleep", !.raised = (outcome = "raise")]

\* run_periodic with the cancellation swallowed: the tick is completed
TaskStepResultLate(t, outcome) ==
    IF t.pos = "start_sleep" THEN [t EXCEPT !.pos = "sleep"]
    ELSE IF t.pos \in {"start", "timer"} THEN [t EXCEPT !.pos = "handler"]
    ELSE HandlerFinished(t, outcome)

\* one step of run_periodic on the event loop
TaskStepResult(t, outcome) ==
    IF t.must_cancel THEN [t EXCEPT !.pos = "done", !.raised = FALSE]
    ELSE IF t.pos = "start_sleep" THEN [t EXCEPT !.pos = "sleep"]
    ELSE IF t.pos \in {"start", "timer"} THEN [t EXCEPT !.pos = "handler"]
    ELSE IF outcome = "raise" THEN HandlerFinished(t, outcome)
    ELSE HandlerFinished(t, "return")

\* TaskScheduler.get_job_status(job_id)
GetJobStatus(jmap, tmap, ts, job_id) ==
    IF jmap[job_id] = NONE THEN NONE
    ELSE [job_id |-> job_id, last_run |-> jmap[job_id].last_run,
          running |-> tmap[job_id] # 0 /\ ts[tmap[job_id]].pos # "done"]

(***************************************************************************)
(* streaming/event_bus.py: EventBus.  publish is a coroutine: it runs      *)
(* until a handler that is a coroutine function suspends, and goes on      *)
(* when that handler is resumed.                                           *)
(***************************************************************************)
EventTypes == {"signal_update", "evaluation_update"}

Handlers == {"hA", "hB"}

\* asyncio.iscoroutinefunction(handler)
IsCoroutineFunction(h) == h = "hA"

\* self.subscribers.get(event.event_type, [])
HandlersOf(subs, event_type) ==
    IF subs[event_type] = NONE THEN <<>> ELSE subs[event_type]

\* number of times handler h stands in the list
Occurrences(list, h) == Cardinality({i \in DOMAIN list : list[i] = h})

\* list.remove(handler): the first occurrence
RECURSIVE ListRemove(_, _)
ListRemove(list, h) ==
    IF list = <<>> THEN <<>>
    ELSE IF Head(list) = h THEN Tail(list)
    ELSE <<Head(list)>> \o ListRemove(Tail(list), h)

\* publish without the try/except around the handler call
AfterRaiseUncaught(c) == [c EXCEPT !.pos = "done", !.error = TRUE]

\* except Exception as e: self.logger.error(...)
AfterRaise(c) == c

\* the handler the call is in has finished with the given outcome
HandlerDone(c, h, outcome) ==
    IF outcome = "raise"
    THEN AfterRaise([c EXCEPT !.pos = "loop", !.failed = @ \cup {h}])
    ELSE [c EXCEPT !.pos = "loop"]

\* for handler in handlers: ... from the iterator's index on, until a
\* coroutine handler suspends or the list is exhausted.  raises: the handlers
\* that raise; suspends: the coroutine handlers that suspend.
\* Gives the call and the invocations made.
Called(c, h) == [c EXCEPT !.idx = @ + 1, !.calls[h] = @ + 1]

RECURSIVE RunHandlers(_, _, _, _, _, _)
RunHandlers(c, id, list, raises, suspends, log) ==
    IF c.pos # "loop" THEN [call |-> c, log |-> log]
    ELSE IF c.idx >= Len(list) THEN [call |-> [c EXCEPT !.pos = "done"], log |-> log]
    ELSE LET h == list[c.idx + 1]
             at == Called(c, h)
             called == [log EXCEPT ![h] = id]
         IN  IF IsCoroutineFunction(h) /\ h \in suspends
             THEN [call |-> [at EXCEPT !.pos = "handler", !.cur = h], log |-> called]
             ELSE RunHandlers(HandlerDone(at, h, IF h \in raises THEN "raise" ELSE "return"),
                              id, list, raises, suspends, called)

\* publish_sync: every handler is called; calling a coroutine function only
\* makes a coroutine object, which never raises
RECURSIVE RunHandlersSync(_, _, _, _, _)
RunHandlersSync(c, id, list, raises, log) ==
    IF c.pos # "loop" THEN [call |-> c, log |-> log]
    ELSE IF c.idx >= Len(list) THEN [call |-> [c EXCEPT !.pos = "done"], log |-> log]
    ELSE LET h == list[c.idx + 1]
             at == Called(c, h)
         IN  RunHandlersSync(
                 HandlerDone(at, h, IF h \in raises /\ ~IsCoroutineFunction(h)
                                    THEN "raise" ELSE "return"),
                 id, list, raises, [log EXCEPT ![h] = id])

\* a call of publish(event) at its first statement
NewPublish(event_type) ==
    [event_type |-> event_type, idx |-> 0, pos |-> "loop", cur |-> NONE,
     failed |-> {}, error |-> FALSE, mutated |-> FALSE, calls |-> [h \in Handlers |-> 0]]

\* a call that has returned leaves no frame behind
Returned(ps) ==
    [i \in DOMAIN ps |->
        IF ps[i].pos = "done"
        THEN [NewPublish(ps[i].event_type) EXCEPT !.pos = "done", !.error = ps[i].error]
        ELSE ps[i]]

\* the subscriber list of a type changes under the publish calls in flight
MarkMutated(ps, event_type) ==
    [i \in DOMAIN ps |->
        IF ps[i].event_type = event_type /\ ps[i].pos # "done"
        THEN [ps[i] EXCEPT !.mutated = TRUE] ELSE ps[i]]

(***************************************************************************)
(* api/websocket.py: ConnectionManager.  broadcast is a coroutine that     *)
(* iterates the set of active connections and suspends in every send.  An  *)
(* iterator over a set walks the slots of its table in order and raises    *)
(* RuntimeError when the size of the set differs from the size it saw      *)
(* when it was made.                                                       *)
(***************************************************************************)
Clients == {"c1", "c2"}

Scenarios == {"h1", "h2"}

\* self.subscriptions has no key for the client
NoKey == {NONE}

\* the orders in which the slots of the set can hold the clients
SlotOrders ==
    {o \in [1..Cardinality(Clients) -> Clients] : \A c \in Clients : \E i \in DOMAIN o : o[i] = c}

\* self.subscriptions.get(connection, set())
SubscriptionsGet(subs, c) == IF subs[c] = NoKey THEN {} ELSE subs[c]

\* if scenario: ... (None and "" apply no filter)
Filtered(scenario) == scenario \notin {NONE, ""}

\* broadcast without the scenario test
SelectedAll(subs, c, scenario) == TRUE

\* if scenario and scenario not in subscriptions.get(connection, set()): continue
Selected(subs, c, scenario) ==
    Filtered(scenario) => scenario \in SubscriptionsGet(subs, c)

\* ConnectionManager.disconnect for every client of a set
DisconnectAll(m, clients) ==
    [active |-> m.active \ clients,
     subs |-> [c \in Clients |-> IF c \in clients THEN NoKey ELSE m.subs[c]]]

\* for conn in disconnected: self.disconnect(conn)
CleanUp(m, disconnected) == DisconnectAll(m, disconnected)

\* the clients a broadcast made now has to reach
Target(active, subs, scenario) ==
    IF Filtered(scenario) THEN {c \in active : subs[c] # NoKey /\ scenario \in subs[c]}
    ELSE active

\* a call of broadcast(message, scenario) at its first statement
NewBroadcast(scenario, order, active, subs) ==
    [kind |-> "broadcast", scenario |-> scenario, order |-> order, idx |-> 0,
     size |-> Cardinality(active), pos |-> "next", disconnected |-> {},
     sent |-> {}, disturbed |-> FALSE,
     target |-> Target(active, subs, scenario)]

\* the slots after the iterator's position that hold an active connection
SlotsLeft(op, active) == {j \in DOMAIN op.order : j > op.idx /\ op.order[j] \in active}

\* for connection in self.active_connections: ... up to the next send or
\* to the end of broadcast.  m is the manager: [active, subs].
RECURSIVE RunBroadcast(_, _)
RunBroadcast(op, m) ==
    IF op.pos # "next" THEN [op |-> op, m |-> m]
    ELSE IF Cardinality(m.active) # op.size
    THEN [op |-> [op EXCEPT !.pos = "raised"], m |-> m]
    ELSE IF SlotsLeft(op, m.active) = {}
    THEN [op |-> [op EXCEPT !.pos = "done"], m |-> CleanUp(m, op.disconnected)]
    ELSE LET j == CHOOSE j \in SlotsLeft(op, m.active) :
                      \A k \in SlotsLeft(op, m.active) : j <= k
             c == op.order[j]
         IN  IF Selected(m.subs, c, op.scenario)
             THEN [op |-> [op EXCEPT !.idx = j, !.pos = "send",
                                     !.sent = IF op.disturbed THEN @ ELSE @ \cup {c}],
                   m |-> m]
             ELSE RunBroadcast([op EXCEPT !.idx = j], m)

\* await connection.send_json(message) is over: except Exception adds the
\* connection to disconnected
SendOver(op, outcome) ==
    IF outcome = "raise"
    THEN [op EXCEPT !.pos = "next", !.disconnected = @ \cup {op.order[op.idx]}]
    ELSE [op EXCEPT !.pos = "next"]

\* a call of send_personal_message(message, websocket) that is over
PersonalSend(c, outcome) ==
    [kind |-> "personal", scenario |-> NONE, order |-> <<>>, idx |-> 0, size |-> 0,
     pos |-> "done", disconnected |-> IF outcome = "raise" THEN {c} ELSE {}, sent |-> {c},
     disturbed |-> FALSE, target |-> {c}]

\* no call
Idle == [PersonalSend("c1", "return") EXCEPT !.kind = NONE, !.pos = "idle", !.sent = {},
                                             !.target = {}]

\* a call that is over leaves no frame behind
SendsOver(ops) ==
    [i \in DOMAIN ops |-> IF ops[i].pos \in {"done", "raised"} THEN Idle ELSE ops[i]]

\* the place of a new call among the calls in flight
FreeSlots(ops) == {i \in DOMAIN ops : SendsOver(ops)[i].pos = "idle"}

NewSlot(ops) == CHOOSE i \in FreeSlots(ops) : \A k \in FreeSlots(ops) : i <= k

\* the manager changes under the broadcasts in flight: what such a
\* broadcast had to reach and has reached is no longer followed
Disturbed(ops) ==
    [i \in DOMAIN ops |->
        IF ops[i].pos \in {"done", "raised", "idle"} THEN ops[i]
        ELSE [ops[i] EXCEPT !.disturbed = TRUE, !.target = {}, !.sent = {}]]

(***************************************************************************)
(* fetcher.py / async_fetcher.py: fetch_feeds_parallel.  A request is      *)
(* <<source_name, url>>; its worker returns a FetchResult that succeeded   *)
(* ("ok") or failed ("failed"), or raises ("raise").                       *)
(***************************************************************************)
WorkerOutcomes == {"ok", "failed", "raise"}

\* the FetchResult fetch_single_feed returns
WorkerResult(request, outcome) ==
    [source_name |-> request[1], url |-> request[2], success |-> outcome = "ok",
     data |-> IF outcome = "ok" THEN "feedA" ELSE NONE,
     error |-> IF outcome = "ok" THEN NONE ELSE "Fetch returned None"]

\* FetchResult(source_name=source_name, url="", data=None, success=False, ...)
SyntheticResult(source_name) ==
    [source_name |-> source_name, url |-> Url("", <<>>, "", ""), data |-> NONE,
     success |-> FALSE, error |-> "exception"]

\* fetch_feeds_parallel that drops a request whose worker raised
CollectedUnlessRaised(results, request, outcome) ==
    IF outcome = "raise" THEN results
    ELSE Put(results, request[1], WorkerResult(request, outcome))

\* results[source_name] = result, or the synthetic result when the worker raised
Collected(results, request, outcome) ==
    Put(results, request[1],
        IF outcome = "raise" THEN SyntheticResult(request[1])
        ELSE WorkerResult(request, outcome))

\* the loop that fills results: in the order the futures complete
\* (as_completed), or in the order of the inputs (asyncio.gather)
RECURSIVE CollectAll(_, _, _, _)
CollectAll(requests, outcomes, order, results) ==
    IF order = <<>> THEN results
    ELSE CollectAll(requests, outcomes, Tail(order),
                    Collected(results, requests[Head(order)], outcomes[Head(order)]))

\* the orders in which n futures can complete
Orders(n) == {o \in [1..n -> 1..n] : \A i \in 1..n : \E k \in 1..n : o[k] = i}

\* fetch_feeds_parallel(sources, allowed_netlocs, max_workers)
FetchFeedsParallelResult(requests, outcomes, order) ==
    CollectAll(requests, outcomes, order, <<>>)

\* AsyncFetcher.fetch_feeds_parallel(sources, max_concurrent)
AsyncFetchFeedsParallelResult(requests, outcomes) ==
    CollectAll(requests, outcomes, [i \in 1..Len(requests) |-> i], <<>>)

(***************************************************************************)
(* Initial state                                                           *)
(***************************************************************************)
NoCall == [op |-> "none", url |-> Url("", <<>>, "", ""), allowed |-> NoWhitelist, success |-> FALSE,
           data |-> NONE, error |-> NONE, steps |-> <<>>, limited |-> FALSE]

InitFetch ==
    /\ clock = 0
    /\ rate_limit_store = <<>>
    /\ admitted = <<>>
    /\ feed_cache = <<>>
    /\ last = NoCall

NoStore == [op |-> "none", source_name |-> "", title |-> <<>>, summary |-> <<>>,
            id |-> 0, existing |-> 0]

InitDb ==
    /\ db = EmptyDb
    /\ db_ret = NoStore

NoSignal == [op |-> "none", signal |-> "", bound |-> FALSE, value |-> 0, vals |-> <<>>,
             results |-> <<>>, persisted |-> FALSE]

NoEval == [op |-> "none", hyp |-> "", bound |-> FALSE, simulate |-> 0, raised |-> FALSE,
           z |-> 0, zs |-> <<>>, p |-> -1, mean |-> -1, low |-> -1, high |-> -1,
           sims |-> <<>>, details |-> <<>>]

InitPam ==
    /\ sig_ret = NoSignal
    /\ eval_ret = NoEval
    /\ pam_calls = 0

NoProcess == [op |-> "none", source |-> "", updated |-> FALSE, parsed |-> FALSE,
              first |-> FALSE, hash |-> <<>>]

InitProc ==
    /\ last_hashes = <<>>
    /\ published = <<>>
    /\ proc_ret = NoProcess
    /\ proc_calls = 0

InitSched ==
    /\ tasks = [j \in JobIds |-> 0]
    /\ jobs = [j \in JobIds |-> NONE]
    /\ loop_tasks = <<>>

InitBus ==
    /\ subscribers = [t \in EventTypes |-> NONE]
    /\ pubs = <<>>
    /\ invoked = [h \in Handlers |-> 0]

InitWs ==
    /\ active_connections = {}
    /\ subscriptions = [c \in Clients |-> NoKey]
    /\ sends = [i \in 1..MaxSends |-> Idle]

NoFetchAll == [op |-> "none", calls |-> 0, requests |-> <<>>, outcomes |-> <<>>,
               results |-> <<>>]

InitFetchAll == fetch_all = NoFetchAll

KvKeys == {"key1", "key2"}

NoSet == [set |-> FALSE, value |-> NONE, ttl_seconds |-> <<>>, at |-> 0]

NoKvCall == [op |-> "none", key |-> "", at |-> 0, value |-> NONE]

InitKv ==
    /\ kv_cache = <<>>
    /\ kv_sets = [k \in KvKeys |-> NoSet]
    /\ kv_ret = NoKvCall

Tables(d) ==
    [feed_items |-> d.feed_items, signal_values |-> d.signal_values,
     hypothesis_evaluations |-> d.hypothesis_evaluations]

NoCleanup ==
    [op |-> "none", calls |-> 0, days |-> 0, at |-> 0, before |-> Tables(EmptyDb), after |-> Tables(EmptyDb),
     counts |-> [feed_items |-> 0, signals |-> 0, evaluations |-> 0]]

InitCleanup == cleanup_ret = NoCleanup

\* the document of the tests: one source, one signal, one hypothesis, one
\* keyword set, one binding
ValidSource == [name |-> "s1", url |-> "https://example.com", type |-> "rss", timeout |-> 10]

ValidSignal == [name |-> "sig1", aggregation |-> "sum", cap |-> 1000]

ValidHypothesis == [name |-> "h1", prior |-> 100, signals |-> <<"sig1">>]

ValidBinding ==
    [sources |-> <<"s1">>, keywords |-> <<"kw1">>, window_days |-> Number(DEFAULT_WINDOW_DAYS)]

SourceLists ==
    {<<ValidSource>>,
     <<ValidSource, ValidSource, [ValidSource EXCEPT !.name = ""]>>,
     <<[ValidSource EXCEPT !.url = "", !.type = "xml", !.timeout = 0]>>,
     <<ValidSource, [ValidSource EXCEPT !.name = "s2", !.type = "atom"]>>}

SignalLists ==
    {<<>>, <<ValidSignal>>,
     <<ValidSignal, ValidSignal, [ValidSignal EXCEPT !.name = ""],
       [ValidSignal EXCEPT !.name = "sig2", !.aggregation = "max", !.cap = -1]>>,
     <<[ValidSignal EXCEPT !.aggregation = "mean", !.cap = 0]>>}

HypothesisLists ==
    {<<ValidHypothesis>>,
     <<[ValidHypothesis EXCEPT !.prior = 0], [ValidHypothesis EXCEPT !.name = "h2", !.prior = 1000],
       [ValidHypothesis EXCEPT !.prior = -1, !.signals = <<>>]>>,
     <<[ValidHypothesis EXCEPT !.name = "", !.prior = 1001,
                               !.signals = <<"nonexistent", "sig1", "">>]>>}

KeywordSetNames == {{}, {"kw1"}}

BindingLists ==
    {<<>>, << <<"sig1", ValidBinding>> >>,
     << <<"other", [window_days |-> Number(1)]>> >>,
     << <<"sig1", [ValidBinding EXCEPT !.sources = <<"nonexistent_source", "s1">>,
                                       !.window_days = Number(0)]>> >>,
     << <<"sig1", [ValidBinding EXCEPT !.keywords = <<"kw1", "kw2">>,
                                       !.window_days = NotANumber]>>,
        <<"", [sources |-> <<>>, keywords |-> <<>>]>> >>}

Configs ==
    [sources : SourceLists, signals : SignalLists, hypotheses : HypothesisLists,
     keyword_sets : KeywordSetNames, signal_bindings : BindingLists]

NoConfigCall ==
    [op |-> "none", validate |-> FALSE, errors |-> <<>>, raised |-> FALSE,
     config |-> [sources |-> <<>>, signals |-> <<>>, hypotheses |-> <<>>,
                 keyword_sets |-> {}, signal_bindings |-> <<>>]]

InitCfg == cfg_ret = NoConfigCall

\* AlertManager.__init__; order is the order of the keys of self.rules,
\* seen the value of the last event each rule was evaluated against (-1: none)
InitAlerts ==
    alert_mgr = [rules |-> <<>>, order |-> <<>>, alerts |-> <<>>, seen |-> <<>>, events |-> 0,
                 changes |-> 0,
                 event |-> [type |-> "none", subject |-> NONE, value |-> 0]]

\* RateLimiter.__init__; history holds every request checked, with its outcome
InitApi ==
    api_limiter = [minute_windows |-> <<>>, hour_windows |-> <<>>, history |-> <<>>,
                   waits |-> 0]

\* AuditLogger._initialize_audit_table
InitAudit ==
    audit = [rows |-> <<>>, seq |-> 0, calls |-> 0, op |-> "none", user_id |-> NONE,
             returned |-> 0]

(***************************************************************************)
(* metrics.py: MetricsCollector.  Durations are whole numbers; the keys of *)
(* a dict are kept in the order they were added in.                        *)
(***************************************************************************)
\* self._counters[name] += value on a defaultdict(int)
CounterAdd(counters, name, value) ==
    Put(counters, name, (IF name \in DOMAIN counters THEN counters[name] ELSE 0) + value)

\* get_timing_stats: the dict returned for a list of timings that is not
\* empty, None for one that is; the mean is the pair sum, count
TimingStats(timings) ==
    IF timings = <<>> THEN <<>>
    ELSE <<[count |-> Len(timings), mean |-> <<SumSeq(timings), Len(timings)>>,
            min |-> CHOOSE x \in {timings[i] : i \in DOMAIN timings} :
                        \A i \in DOMAIN timings : x <= timings[i],
            max |-> CHOOSE x \in {timings[i] : i \in DOMAIN timings} :
                        \A i \in DOMAIN timings : x >= timings[i],
            sum |-> SumSeq(timings)]>>

\* threading.Lock(): acquire waits until no thread holds the lock, the
\* thread that holds it included
LockFree(lock) == lock = NONE

Threads == {"worker", "health"}

\* a thread outside the collector
Outside == [at |-> "outside", names |-> <<>>, summary |-> <<>>]

\* MetricsCollector.__init__
InitMetrics ==
    metrics = [counters |-> <<>>, timers |-> <<>>, timer_names |-> <<>>, lock |-> NONE,
               calls |-> 0, threads |-> [t \in Threads |-> Outside],
               ret |-> [op |-> "none", value |-> <<>>]]

(***************************************************************************)
(* database.py, async_database.py: update_source_status, statement by      *)
(* statement.  Every caller has a connection of its own (thread-local in   *)
(* Database, opened per call in AsyncDatabase), so the statements of       *)
(* different callers interleave; each statement is atomic in the database. *)
(***************************************************************************)
\* SELECT * FROM source_status WHERE source_name = ?
StatusSelect(table, source_name) ==
    SelectSeq(table, LAMBDA row : row.source_name = source_name)

\* UPDATE source_status SET ... WHERE source_name = ?
StatusUpdate(table, source_name, success, error, now) ==
    [i \in 1..Len(table) |->
        IF table[i].source_name # source_name THEN table[i]
        ELSE IF success
             THEN [table[i] EXCEPT !.last_fetch_at = <<now>>, !.last_success_at = <<now>>,
                                   !.fetch_count = @ + 1, !.last_error = NONE]
             ELSE [table[i] EXCEPT !.last_fetch_at = <<now>>, !.error_count = @ + 1,
                                   !.last_error = error, !.fetch_count = @ + 1]]

\* source_name TEXT NOT NULL UNIQUE: the INSERT of a second row for a name fails
StatusUnique(table, source_name) == StatusSelect(table, source_name) = <<>>

\* INSERT INTO source_status (...) VALUES (..., 1)
StatusInsert(table, source_name, success, error, now) ==
    Append(table,
           IF success
           THEN [source_name |-> source_name, last_fetch_at |-> <<now>>,
                 last_success_at |-> <<now>>, fetch_count |-> 1, error_count |-> 0,
                 last_error |-> NONE]
           ELSE [source_name |-> source_name, last_fetch_at |-> <<now>>,
                 last_success_at |-> <<>>, fetch_count |-> 1, error_count |-> 1,
                 last_error |-> error])

\* the workers: threads of one Database, or coroutines of one AsyncDatabase
Callers == {"w1", "w2", "w3"}
UpsertSources == {"s1", "s2"}
NotCalling == [at |-> "idle", source_name |-> NONE, success |-> FALSE, existing |-> FALSE]

InitUpsert ==
    upsert = [table |-> <<>>, callers |-> [w \in Callers |-> NotCalling],
              started |-> [n \in UpsertSources |-> 0], raised |-> 0]

(***************************************************************************)
(* security.py: validate_url and get_allowed_netlocs_from_config called    *)
(* on their own                                                            *)
(***************************************************************************)
UrlWwwFeed == Url("https", <<"www", "example", "com">>, "", "/feed")
UrlEvil    == Url("http", <<"evil", "com">>, "", "/")
UrlWwwEvil == Url("http", <<"www", "evil", "com">>, "", "/")

CheckedUrls == Urls \cup {UrlWwwFeed, UrlEvil, UrlWwwEvil}

\* cfg.sources of a config with none, one or both of the sources
SourceConfigs == {[n \in S |-> SourceDefs[n]] : S \in SUBSET Sources}

\* None, the whitelist of the test, and the whitelists WorldPAM derives
GivenWhitelists ==
    {NoWhitelist, Whitelist({<<"example", "com">>, <<"test", "com">>})}
        \cup {GetAllowedNetlocsFromConfig(sources) : sources \in SourceConfigs}

NoUrlCall ==
    [op |-> "none", url |-> UrlNoHost, sources |-> <<>>, allowed |-> NoWhitelist,
     accepted |-> FALSE]

InitUrl == url_ret = NoUrlCall

(***************************************************************************)
(* security.py: check_rate_limit, statement by statement, as the worker    *)
(* threads of fetch_feeds_parallel run it for one host.  The function      *)
(* takes no lock, so the threads interleave between its statements.        *)
(***************************************************************************)
\* ThreadPoolExecutor(max_workers=...): the worker threads
Workers == {"t1", "t2"}

NotChecking == [at |-> "idle", cleaned |-> <<>>]

InitBucket ==
    bucket = [list |-> <<>>, workers |-> [w \in Workers |-> NotChecking],
              calls |-> 0, admitted |-> 0, refused |-> 0]

(***************************************************************************)
(* alerts/alert_manager.py: _determine_severity called on its own          *)
(***************************************************************************)
\* values and thresholds in thousandths: negative, zero, small and large
SeverityValues == {-1000, -500, -200, -1, 0, 1, 50, 100, 110, 111, 130, 131, 150, 151,
                   200, 220, 221, 260, 261, 300, 301, 500, 1000}

SeverityThresholds == {-500, -1, 0, 1, 100, 200, 1000}

InitSeverity == severity_ret = [op |-> "none", value |-> 0, threshold |-> 0, severity |-> NONE]

(***************************************************************************)
(* database.py: update_source_status called one call after another         *)
(***************************************************************************)
\* error: Optional[str] = None
StatusErrors == {NONE, "Fetch returned None"}

InitStatus == status_log = <<>>

(***************************************************************************)
(* streaming/event_bus.py: subscribe and unsubscribe while publish is      *)
(* suspended in a coroutine handler.  handlers in publish is the list of   *)
(* self.subscribers itself, so the loop goes on over the list as it is     *)
(* when the handler returns.                                               *)
(***************************************************************************)
NoDelivery == [NewPublish("signal_update") EXCEPT !.pos = "done"]

InitDelivery ==
    delivery = [subscribers |-> [t \in EventTypes |-> NONE], call |-> NoDelivery,
                start |-> <<>>, ret |-> NONE, ops |-> 0]

Init ==
    /\ InitDelivery /\ InitStatus /\ InitSeverity /\ InitBucket /\ InitAudit /\ InitMetrics /\ InitUpsert /\ InitUrl
    /\ InitFetch /\ InitDb /\ InitPam /\ InitProc /\ InitSched /\ InitBus /\ InitWs
    /\ InitFetchAll /\ InitKv /\ InitCleanup /\ InitCfg /\ InitAlerts /\ InitApi

(***************************************************************************)
(* Actions of the fetch layer                                              *)
(***************************************************************************)
\* time passes
Tick ==
    /\ clock < MaxTicks * TickLen
    /\ clock' = clock + TickLen
    /\ UNCHANGED <<rate_limit_store, admitted, feed_cache, last>>
    /\ UNCHANGED <<dbVars, pamVars, procVars, moreVars>>

\* a direct call check_rate_limit(url)
CheckRateLimit(url) ==
    /\ rate_limit_store' = RateStore(rate_limit_store, url, clock)
    /\ admitted' = RateHistory(admitted, rate_limit_store, url, clock)
    /\ last' = [op |-> "check_rate_limit", url |-> url, allowed |-> NoWhitelist,
                success |-> RateAllowed(rate_limit_store, url, clock),
                data |-> NONE, error |-> NONE, steps |-> <<"rate">>,
                limited |-> ~RateAllowed(rate_limit_store, url, clock)]
    /\ UNCHANGED <<clock, feed_cache>>
    /\ UNCHANGED <<dbVars, pamVars, procVars, moreVars>>

\* a direct call fetch_url_secure(url, allowed_netlocs=...)
FetchUrlSecure(url, allowed_netlocs, net) ==
    LET r == FetchUrlSecureResult(url, allowed_netlocs, net, rate_limit_store, admitted, clock)
    IN  /\ rate_limit_store' = r.store
        /\ admitted' = r.hist
        /\ last' = [op |-> "fetch_url_secure", url |-> url, allowed |-> allowed_netlocs,
                    success |-> Truthy(r.data), data |-> r.data, error |-> NONE,
                    steps |-> r.steps, limited |-> r.limited]
        /\ UNCHANGED <<clock, feed_cache>>
        /\ UNCHANGED <<dbVars, pamVars, procVars, moreVars>>

\* fetcher.fetch_single_feed(source_name, url, timeout, allowed_netlocs)
FetchSingleFeed(url, allowed_netlocs, net) ==
    LET r == FetchSingleFeedResult(url, allowed_netlocs, net, rate_limit_store,
                                   admitted, feed_cache, clock)
    IN  /\ rate_limit_store' = r.store
        /\ admitted' = r.hist
        /\ feed_cache' = r.cache
        /\ last' = [op |-> "fetch_single_feed", url |-> url, allowed |-> allowed_netlocs,
                    success |-> r.success, data |-> r.data, error |-> r.error,
                    steps |-> r.steps, limited |-> r.limited]
        /\ UNCHANGED clock
        /\ UNCHANGED <<dbVars, pamVars, procVars, moreVars>>

\* AsyncFetcher(allowed_netlocs).fetch_single_feed(source_name, url, timeout)
AsyncFetchSingleFeed(url, allowed_netlocs, net) ==
    LET r == AsyncFetchSingleFeedResult(url, allowed_netlocs, net, rate_limit_store,
                                        admitted, feed_cache, clock)
    IN  /\ rate_limit_store' = r.store
        /\ admitted' = r.hist
        /\ feed_cache' = r.cache
        /\ last' = [op |-> "async_fetch_single_feed", url |-> url, allowed |-> allowed_netlocs,
                    success |-> r.success, data |-> r.data, error |-> r.error,
                    steps |-> r.steps, limited |-> r.limited]
        /\ UNCHANGED clock
        /\ UNCHANGED <<dbVars, pamVars, procVars, moreVars>>

(***************************************************************************)
(* Actions of the store                                                    *)
(***************************************************************************)
\* the (source_name, title, summary) the store is exercised with; the titles
\* "a", "ab" and the summaries "bc", "c" concatenate to "abc" twice
FeedArgs ==
    {<<"s1", <<"a">>, <<"b", "c">>>>,
     <<"s1", <<"a", "b">>, <<"c">>>>,
     <<"s1", <<"a">>, <<"c">>>>,
     <<"s2", <<"a">>, <<"b", "c">>>>}

\* Database.store_feed_item(source_name, url, title, summary)
StoreFeedItem(source_name, title, summary) ==
    /\ db.calls < MaxDbCalls
    /\ db' = DbStoreFeedItem(db, source_name, SourceUrl(source_name), title, summary, clock)
    /\ db_ret' = [op |-> "store_feed_item", source_name |-> source_name,
                  title |-> title, summary |-> summary,
                  id |-> StoreFeedItemReturn(db, source_name, SourceUrl(source_name),
                                             title, summary, clock),
                  existing |-> ExistingId(db, source_name, title, summary)]
    /\ UNCHANGED <<fetchVars, pamVars, procVars, moreVars>>

\* AsyncDatabase.store_feed_item(source_name, url, title, summary)
AsyncStoreFeedItem(source_name, title, summary) ==
    /\ db.calls < MaxDbCalls
    /\ db' = [DbStoreFeedItem(db, source_name, SourceUrl(source_name), title, summary, clock)
                EXCEPT !.rowid = db.rowid]
    /\ db_ret' = [op |-> "async_store_feed_item", source_name |-> source_name,
                  title |-> title, summary |-> summary,
                  id |-> AsyncStoreFeedItemReturn(db, source_name, SourceUrl(source_name),
                                                  title, summary, clock),
                  existing |-> ExistingId(db, source_name, title, summary)]
    /\ UNCHANGED <<fetchVars, pamVars, procVars, moreVars>>

\* Database.store_signal_value(signal_name, value)
StoreSignalValue(signal_name, value) ==
    /\ db.calls < MaxDbCalls
    /\ db' = DbStoreSignalValue(db, signal_name, value, NONE, 7, clock)
    /\ db_ret' = [NoStore EXCEPT !.op = "store_signal_value"]
    /\ UNCHANGED <<fetchVars, pamVars, procVars, moreVars>>

\* Database.store_hypothesis_evaluation(hypothesis_name, probability)
StoreHypothesisEvaluation(hypothesis_name, probability) ==
    /\ db.calls < MaxDbCalls
    /\ db' = DbStoreHypothesisEvaluation(db, hypothesis_name, probability, NONE,
                                         -1, -1, -1, clock)
    /\ db_ret' = [NoStore EXCEPT !.op = "store_hypothesis_evaluation"]
    /\ UNCHANGED <<fetchVars, pamVars, procVars, moreVars>>

\* Database.update_source_status(source_name, success, error)
UpdateSourceStatus(source_name, success) ==
    /\ db.calls < MaxDbCalls
    /\ db' = DbUpdateSourceStatus(db, source_name, success, "Fetch returned None", clock)
    /\ db_ret' = [NoStore EXCEPT !.op = "update_source_status", !.source_name = source_name]
    /\ UNCHANGED <<fetchVars, pamVars, procVars, moreVars>>

NextStore ==
    \/ \E a \in FeedArgs : StoreFeedItem(a[1], a[2], a[3])
    \/ \E a \in FeedArgs : AsyncStoreFeedItem(a[1], a[2], a[3])
    \/ StoreSignalValue("summed", 500)
    \/ StoreHypothesisEvaluation("h1", 250)
    \/ \E ok \in BOOLEAN : UpdateSourceStatus("s1", ok)

SpecStore == Init /\ [][NextStore]_vars

\* half a day passes
LongSleep ==
    /\ clock < MaxLongTicks * LongTick
    /\ clock' = clock + LongTick
    /\ UNCHANGED <<rate_limit_store, admitted, feed_cache, last>>
    /\ UNCHANGED <<dbVars, pamVars, procVars, moreVars>>

\* Database.cleanup_old_data(days)
CleanupOldData(days) ==
    /\ cleanup_ret.calls < MaxCleanups
    /\ db' = DbCleanupOldData(db, days, clock)
    /\ db_ret' = [NoStore EXCEPT !.op = "cleanup_old_data"]
    /\ cleanup_ret' = [op |-> "cleanup_old_data", calls |-> cleanup_ret.calls + 1, days |-> days, at |-> clock,
                       before |-> Tables(db),
                       after |-> Tables(DbCleanupOldData(db, days, clock)),
                       counts |-> CleanupOldDataReturn(db, days, clock)]
    /\ UNCHANGED exceptCleanup

\* the store with time passing and clean-ups between the store calls
NextCleanup ==
    \/ StoreFeedItem("s1", <<"a">>, <<"c">>)
    \/ StoreSignalValue("summed", 500)
    \/ StoreHypothesisEvaluation("h1", 250)
    \/ LongSleep
    \/ \E days \in {0, 1} : CleanupOldData(days)

SpecCleanup == Init /\ [][NextCleanup]_vars

\* validate_config(config)
ValidateConfigCall(config) ==
    /\ cfg_ret' = [op |-> "validate_config", validate |-> TRUE, config |-> config,
                   errors |-> ValidateConfig(config), raised |-> FALSE]
    /\ UNCHANGED exceptCfg

\* _load_config_impl(path, validate) of a file that holds the document
LoadConfigImpl(config, validate) ==
    /\ cfg_ret' = [op |-> "load_config", validate |-> validate, config |-> config,
                   errors |-> IF validate THEN ValidateConfig(config) ELSE <<>>,
                   raised |-> LoadRaises(config, validate)]
    /\ UNCHANGED exceptCfg

NextCfg ==
    \/ \E config \in Configs : ValidateConfigCall(config)
    \/ \E config \in Configs, validate \in BOOLEAN : LoadConfigImpl(config, validate)

SpecCfg == Init /\ [][NextCfg]_vars

(***************************************************************************)
(* Actions of the alert manager                                            *)
(***************************************************************************)
RuleIds == {"r1", "r2"}

Conditions == {"greater_than", "less_than", "equals", "change"}

AlertValues == {100, 200, 900}

\* the rules added: r1 with every condition, without filter, for scenario H
\* or for signal sigA; r2 disabled, or enabled for scenario H
AlertRule(rule_id, condition, scenario, signal, enabled) ==
    [rule_id |-> rule_id, condition |-> condition, threshold |-> 200, scenario |-> scenario,
     signal |-> signal, enabled |-> enabled]

AlertRules ==
    {AlertRule("r1", c, f[1], f[2], TRUE) :
        c \in Conditions, f \in {<<NONE, NONE>>, <<"H", NONE>>, <<NONE, "sigA">>}}
    \cup {AlertRule("r2", "greater_than", NONE, NONE, FALSE),
          AlertRule("r2", "greater_than", "H", NONE, TRUE)}

\* AlertManager.add_rule(rule): a dict keeps the place of a key it has
AddRule(rule) ==
    /\ alert_mgr.changes < MaxRuleChanges
    /\ alert_mgr' = [alert_mgr EXCEPT
            !.changes = @ + 1,
            !.rules = Put(@, rule.rule_id, rule),
            !.order = IF rule.rule_id \in DOMAIN alert_mgr.rules THEN @
                      ELSE Append(@, rule.rule_id),
            !.seen = Put(@, rule.rule_id, -1)]
    /\ UNCHANGED exceptAlerts

\* AlertManager.remove_rule(rule_id)
RemoveRule(rule_id) ==
    /\ alert_mgr.changes < MaxRuleChanges
    /\ alert_mgr' = IF rule_id \in DOMAIN alert_mgr.rules
                    THEN [alert_mgr EXCEPT !.rules = Remove(@, rule_id),
                                           !.order = ListRemove(@, rule_id),
                                           !.seen = Remove(@, rule_id),
                                           !.changes = @ + 1]
                    ELSE [alert_mgr EXCEPT !.changes = @ + 1]
    /\ UNCHANGED exceptAlerts

\* the values the enabled rules whose filter matches have now seen
SeenAfter(m, filter, event) ==
    [id \in DOMAIN m.rules |->
        IF m.rules[id].enabled /\ ~FilterSkips(m.rules[id][filter], event.subject)
        THEN event.value ELSE m.seen[id]]

\* the event bus delivers an evaluation_update event to _check_evaluation_alerts
EvaluationUpdate(hypothesis, probability) ==
    /\ alert_mgr.events < MaxAlertEvents
    /\ \E event \in {[type |-> "evaluation_update", subject |-> hypothesis,
                       value |-> probability]} :
         alert_mgr' = [alert_mgr EXCEPT
            !.alerts = CheckEvaluationAlerts(alert_mgr.rules, alert_mgr.order, event, @),
            !.seen = SeenAfter(alert_mgr, "scenario", event),
            !.events = @ + 1, !.event = event]
    /\ UNCHANGED exceptAlerts

\* the event bus delivers a signal_update event to _check_signal_alerts
SignalUpdate(signal, value) ==
    /\ alert_mgr.events < MaxAlertEvents
    /\ \E event \in {[type |-> "signal_update", subject |-> signal, value |-> value]} :
         alert_mgr' = [alert_mgr EXCEPT
            !.alerts = CheckSignalAlerts(alert_mgr.rules, alert_mgr.order, event, @),
            !.seen = SeenAfter(alert_mgr, "signal", event),
            !.events = @ + 1, !.event = event]
    /\ UNCHANGED exceptAlerts

NextAlerts ==
    \/ \E rule \in AlertRules : AddRule(rule)
    \/ \E rule_id \in RuleIds : RemoveRule(rule_id)
    \/ \E hypothesis \in {"H", "G"}, probability \in AlertValues :
            EvaluationUpdate(hypothesis, probability)
    \/ \E signal \in {"sigA", "sigB"}, value \in AlertValues : SignalUpdate(signal, value)

SpecAlerts == Init /\ [][NextAlerts]_vars

(***************************************************************************)
(* Actions of the audit logger and the GDPR operations                     *)
(***************************************************************************)
Users == {"u1", "u2"}

\* the events logged: of a user, of an API key, of both, of nobody
AuditEvents ==
    {[event_type |-> "api_access", action |-> "evaluate", resource |-> "scenario",
      result |-> "success", user_id |-> p[1], api_key_id |-> p[2], ip_address |-> p[3],
      user_agent |-> p[4]] :
        p \in {<<"u1", NONE, "192.0.2.1", "curl">>, <<NONE, "u2", "192.0.2.2", NONE>>,
               <<"u1", "u2", NONE, NONE>>, <<NONE, NONE, NONE, NONE>>}}

\* AuditLogger.log_event(...) / log_event_async(...)
LogEvent(event) ==
    /\ audit.calls < MaxAuditCalls
    /\ audit' = [audit EXCEPT !.rows = AuditInsert(@, audit.seq + 1, event, clock),
                              !.seq = @ + 1, !.calls = @ + 1, !.op = "log_event",
                              !.user_id = NONE, !.returned = 0]
    /\ UNCHANGED exceptAudit

\* GDPRCompliance.anonymize_user_data(user_id) / anonymize_user_data_async
AnonymizeUserData(user_id) ==
    /\ audit.calls < MaxAuditCalls
    /\ audit' = [audit EXCEPT !.rows = AuditAnonymize(@, user_id), !.calls = @ + 1,
                              !.op = "anonymize_user_data", !.user_id = user_id,
                              !.returned = 0]
    /\ UNCHANGED exceptAudit

\* GDPRCompliance.delete_user_data(user_id)
DeleteUserData(user_id) ==
    /\ audit.calls < MaxAuditCalls
    /\ audit' = [audit EXCEPT !.rows = AuditDeleteUser(@, user_id), !.calls = @ + 1,
                              !.op = "delete_user_data", !.user_id = user_id,
                              !.returned = 0]
    /\ UNCHANGED exceptAudit

\* GDPRCompliance.apply_data_retention_policy(days): returns cursor.rowcount
ApplyDataRetentionPolicy(days) ==
    /\ audit.calls < MaxAuditCalls
    /\ audit' = [audit EXCEPT !.rows = AuditRetention(@, days, clock), !.calls = @ + 1,
                              !.op = "apply_data_retention_policy", !.user_id = NONE,
                              !.returned = Len(audit.rows)
                                             - Len(AuditRetention(audit.rows, days, clock))]
    /\ UNCHANGED exceptAudit

NextAudit ==
    \/ \E event \in AuditEvents : LogEvent(event)
    \/ \E user_id \in Users : AnonymizeUserData(user_id)
    \/ \E user_id \in Users : DeleteUserData(user_id)
    \/ \E days \in {0, 1} : ApplyDataRetentionPolicy(days)
    \/ LongSleep

SpecAudit == Init /\ [][NextAudit]_vars

(***************************************************************************)
(* Actions of the metrics collector.  A method that holds the lock for its *)
(* whole body and calls nothing that takes it is one step.                 *)
(***************************************************************************)
\* MetricsCollector.increment(name)
Increment(t, name) ==
    /\ metrics.calls < MaxMetricCalls
    /\ metrics.threads[t].at = "outside"
    /\ LockFree(metrics.lock)
    /\ metrics' = [metrics EXCEPT !.counters = CounterAdd(@, name, 1), !.calls = @ + 1,
                                  !.ret = [op |-> "increment", value |-> <<>>]]
    /\ UNCHANGED exceptMetrics

\* MetricsCollector.record_timing(name, duration)
RecordTiming(t, name, duration) ==
    /\ metrics.calls < MaxMetricCalls
    /\ metrics.threads[t].at = "outside"
    /\ LockFree(metrics.lock)
    /\ metrics' = [metrics EXCEPT
            !.timers = Put(@, name, (IF name \in DOMAIN @ THEN @[name] ELSE <<>>)
                                       \o <<duration>>),
            !.timer_names = IF name \in DOMAIN metrics.timers THEN @ ELSE Append(@, name),
            !.calls = @ + 1,
            !.ret = [op |-> "record_timing", value |-> <<>>]]
    /\ UNCHANGED exceptMetrics

\* MetricsCollector.clear()
MetricsClear(t) ==
    /\ metrics.calls < MaxMetricCalls
    /\ metrics.threads[t].at = "outside"
    /\ LockFree(metrics.lock)
    /\ metrics' = [metrics EXCEPT !.counters = <<>>, !.timers = <<>>, !.timer_names = <<>>,
                                  !.calls = @ + 1,
                                  !.ret = [op |-> "clear", value |-> <<>>]]
    /\ UNCHANGED exceptMetrics

\* MetricsCollector.get_summary(), also from HealthChecker._check_metrics:
\* with self._lock, summary = {...}, for name in self._timers
GetSummaryEnter(t) ==
    /\ metrics.calls < MaxMetricCalls
    /\ metrics.threads[t].at = "outside"
    /\ LockFree(metrics.lock)
    /\ metrics' = [metrics EXCEPT
            !.lock = t, !.calls = @ + 1,
            !.threads[t] = [at |-> "get_summary", names |-> metrics.timer_names,
                            summary |-> [counters |-> metrics.counters, timers |-> <<>>]]]
    /\ UNCHANGED exceptMetrics

\* MetricsCollector.get_timing_stats(name): called by a thread outside the
\* collector, or by get_summary for the next name of its loop; with
\* self._lock comes first in both cases
GetTimingStats(t, name) ==
    /\ LockFree(metrics.lock)
    /\ \E stats \in {TimingStats(IF name \in DOMAIN metrics.timers
                                  THEN metrics.timers[name] ELSE <<>>)} :
         \/ /\ metrics.threads[t].at = "outside"
            /\ metrics.calls < MaxMetricCalls
            /\ metrics' = [metrics EXCEPT !.calls = @ + 1,
                                          !.ret = [op |-> "get_timing_stats",
                                                   value |-> stats]]
         \/ /\ metrics.threads[t].at = "get_summary"
            /\ metrics.threads[t].names # <<>>
            /\ name = Head(metrics.threads[t].names)
            /\ metrics' = [metrics EXCEPT
                    !.threads[t].names = Tail(@),
                    !.threads[t].summary.timers =
                        IF stats = <<>> THEN @ ELSE Put(@, name, stats[1])]
    /\ UNCHANGED exceptMetrics

\* get_summary: the loop has ended, return summary, the lock is released
GetSummaryReturn(t) ==
    /\ metrics.threads[t].at = "get_summary"
    /\ metrics.threads[t].names = <<>>
    /\ metrics' = [metrics EXCEPT !.lock = NONE, !.threads[t] = Outside,
                                  !.ret = [op |-> "get_summary",
                                           value |-> <<metrics.threads[t].summary>>]]
    /\ UNCHANGED exceptMetrics

TimerNames == {"feed_fetch", "parse"}

ThreadStep(t) ==
    \/ \E name \in {"http_success", "http_errors"} : Increment(t, name)
    \/ \E name \in TimerNames, duration \in {1, 3} : RecordTiming(t, name, duration)
    \/ MetricsClear(t)
    \/ GetSummaryEnter(t)
    \/ \E name \in TimerNames : GetTimingStats(t, name)
    \/ GetSummaryReturn(t)

NextMetrics == \E t \in Threads : ThreadStep(t)

SpecMetrics == Init /\ [][NextMetrics]_vars

\* a thread inside get_summary is scheduled again and again
SpecMetricsFair ==
    SpecMetrics
    /\ \A t \in Threads :
          /\ WF_vars(\E name \in TimerNames : GetTimingStats(t, name))
          /\ WF_vars(GetSummaryReturn(t))

(***************************************************************************)
(* Actions of concurrent update_source_status calls                        *)
(***************************************************************************)
UpsertCalls == upsert.started["s1"] + upsert.started["s2"]

\* update_source_status up to fetchone(): the caller learns whether a row exists
UpsertSelect(w, source_name, success) ==
    /\ upsert.callers[w].at = "idle"
    /\ UpsertCalls < MaxUpserts
    /\ upsert' = [upsert EXCEPT
                    !.started[source_name] = @ + 1,
                    !.callers[w] = [at |-> "selected", source_name |-> source_name,
                                    success |-> success,
                                    existing |-> StatusSelect(upsert.table, source_name) # <<>>]]
    /\ UNCHANGED exceptUpsert

\* the rest of update_source_status: UPDATE or INSERT by what the SELECT saw,
\* then commit; an INSERT that breaks UNIQUE raises sqlite3.IntegrityError
UpsertWrite(w) ==
    LET c == upsert.callers[w]
    IN  /\ c.at = "selected"
        /\ IF c.existing
           THEN upsert' = [upsert EXCEPT
                             !.table = StatusUpdate(@, c.source_name, c.success,
                                                    "Fetch returned None", clock),
                             !.callers[w] = NotCalling]
           ELSE IF StatusUnique(upsert.table, c.source_name)
           THEN upsert' = [upsert EXCEPT
                             !.table = StatusInsert(@, c.source_name, c.success,
                                                    "Fetch returned None", clock),
                             !.callers[w] = NotCalling]
           ELSE upsert' = [upsert EXCEPT !.raised = @ + 1, !.callers[w] = NotCalling]
        /\ UNCHANGED exceptUpsert

NextUpsert ==
    \E w \in Callers :
        \/ \E source_name \in UpsertSources, success \in BOOLEAN :
              UpsertSelect(w, source_name, success)
        \/ UpsertWrite(w)

SpecUpsert == Init /\ [][NextUpsert]_vars

(***************************************************************************)
(* Actions of the URL validation                                           *)
(***************************************************************************)
\* validate_url(url, allowed_netlocs)
ValidateUrlCall(url, allowed_netlocs) ==
    /\ url_ret' = [NoUrlCall EXCEPT !.op = "validate_url", !.url = url,
                                    !.allowed = allowed_netlocs,
                                    !.accepted = ValidateUrl(url, allowed_netlocs)]
    /\ UNCHANGED exceptUrl

\* get_allowed_netlocs_from_config(cfg.sources)
GetAllowedNetlocsCall(sources) ==
    /\ url_ret' = [NoUrlCall EXCEPT !.op = "get_allowed_netlocs_from_config",
                                    !.sources = sources,
                                    !.allowed = GetAllowedNetlocsFromConfig(sources)]
    /\ UNCHANGED exceptUrl

NextUrl ==
    \/ \E url \in CheckedUrls, allowed_netlocs \in GivenWhitelists :
          ValidateUrlCall(url, allowed_netlocs)
    \/ \E sources \in SourceConfigs : GetAllowedNetlocsCall(sources)

SpecUrl == Init /\ [][NextUrl]_vars

(***************************************************************************)
(* Actions of concurrent check_rate_limit calls                            *)
(***************************************************************************)
\* now = time.time(); the list comprehension reads the list of the host
BucketRead(w) ==
    /\ bucket.workers[w].at = "idle"
    /\ bucket.calls < MaxBucketCalls
    /\ bucket' = [bucket EXCEPT !.calls = @ + 1,
                                !.workers[w] = [at |-> "read",
                                                cleaned |-> Fresh(bucket.list, clock)]]
    /\ UNCHANGED exceptBucket

\* _rate_limit_store[key] = [...]: the cleaned list replaces the list
BucketStore(w) ==
    /\ bucket.workers[w].at = "read"
    /\ bucket' = [bucket EXCEPT !.list = bucket.workers[w].cleaned,
                                !.workers[w] = [at |-> "stored", cleaned |-> <<>>]]
    /\ UNCHANGED exceptBucket

\* if len(_rate_limit_store[key]) >= RATE_LIMIT_REQUESTS: return False
BucketCheck(w) ==
    /\ bucket.workers[w].at = "stored"
    /\ bucket' = IF Len(bucket.list) >= RATE_LIMIT_REQUESTS
                 THEN [bucket EXCEPT !.refused = @ + 1, !.workers[w] = NotChecking]
                 ELSE [bucket EXCEPT !.workers[w] = [at |-> "checked", cleaned |-> <<>>]]
    /\ UNCHANGED exceptBucket

\* _rate_limit_store[key].append(now); return True
BucketAppend(w) ==
    /\ bucket.workers[w].at = "checked"
    /\ bucket' = [bucket EXCEPT !.list = Append(@, clock), !.admitted = @ + 1,
                                !.workers[w] = NotChecking]
    /\ UNCHANGED exceptBucket

NextBucket ==
    \E w \in Workers :
        BucketRead(w) \/ BucketStore(w) \/ BucketCheck(w) \/ BucketAppend(w)

SpecBucket == Init /\ [][NextBucket]_vars

(***************************************************************************)
(* Actions of the fetchers over the lifetime of a cache entry              *)
(***************************************************************************)
\* time passes between two fetches
CacheWait ==
    /\ clock < MaxCacheWaits * CacheWaitLen
    /\ clock' = clock + CacheWaitLen
    /\ UNCHANGED <<rate_limit_store, admitted, feed_cache, last>>
    /\ UNCHANGED <<dbVars, pamVars, procVars, moreVars>>

\* the run goes on while the host has been admitted fewer times than this
CacheSlotsLeft == Len(Get(admitted, Netloc(UrlFeed), <<>>)) < MaxCacheFetches

\* the fetches of one feed, with and without a whitelist that excludes it
NextCache ==
    \/ CacheWait
    \/ /\ CacheSlotsLeft
       /\ \E wl \in Whitelists, net \in FetchOutcomes : FetchSingleFeed(UrlFeed, wl, net)
    \/ /\ CacheSlotsLeft
       /\ \E wl \in Whitelists, net \in FetchOutcomes : AsyncFetchSingleFeed(UrlFeed, wl, net)

SpecCache == Init /\ [][NextCache]_vars

(***************************************************************************)
(* Actions of the severity computation                                     *)
(***************************************************************************)
\* AlertManager._determine_severity(value, threshold)
DetermineSeverityCall(value, threshold) ==
    /\ severity_ret' = [op |-> "_determine_severity", value |-> value,
                        threshold |-> threshold,
                        severity |-> DetermineSeverity(value, threshold)]
    /\ UNCHANGED exceptSeverity

NextSeverity ==
    \E value \in SeverityValues, threshold \in SeverityThresholds :
        DetermineSeverityCall(value, threshold)

SpecSeverity == Init /\ [][NextSeverity]_vars

(***************************************************************************)
(* Actions of sequential update_source_status calls                        *)
(***************************************************************************)
\* Database.update_source_status(source_name, success, error)
UpdateSourceStatusWith(source_name, success, error) ==
    /\ Len(status_log) < MaxStatusCalls
    /\ db' = DbUpdateSourceStatus(db, source_name, success, error, clock)
    /\ db_ret' = [NoStore EXCEPT !.op = "update_source_status", !.source_name = source_name]
    /\ status_log' = Append(status_log, [source_name |-> source_name, success |-> success,
                                         error |-> error])
    /\ UNCHANGED exceptStatus

NextStatus ==
    \E source_name \in Sources, success \in BOOLEAN, error \in StatusErrors :
        UpdateSourceStatusWith(source_name, success, error)

SpecStatus == Init /\ [][NextStatus]_vars

(***************************************************************************)
(* Actions of the event bus whose lists change during a delivery           *)
(***************************************************************************)
\* EventBus.subscribe(event_type, handler)
DeliverySubscribe(event_type, h) ==
    /\ delivery.ops < MaxDeliveryOps
    /\ Len(HandlersOf(delivery.subscribers, event_type)) < MaxHandlers
    /\ delivery' = [delivery EXCEPT
                        !.subscribers[event_type] =
                            Append(HandlersOf(delivery.subscribers, event_type), h),
                        !.ret = "subscribed", !.ops = @ + 1]
    /\ UNCHANGED exceptDelivery

\* EventBus.unsubscribe(event_type, handler): list.remove raises ValueError
\* when the handler is not in the list
DeliveryUnsubscribe(event_type, h) ==
    /\ delivery.ops < MaxDeliveryOps
    /\ delivery' =
          IF delivery.subscribers[event_type] = NONE
          THEN [delivery EXCEPT !.ret = "unsubscribed", !.ops = @ + 1]
          ELSE IF Occurrences(delivery.subscribers[event_type], h) = 0
          THEN [delivery EXCEPT !.ret = "ValueError", !.ops = @ + 1]
          ELSE [delivery EXCEPT !.subscribers[event_type] = ListRemove(@, h),
                                !.ret = "unsubscribed", !.ops = @ + 1]
    /\ UNCHANGED exceptDelivery

\* await EventBus.publish(event): from the call to the first suspension
DeliveryPublish(event_type, suspends) ==
    /\ delivery.ops < MaxDeliveryOps
    /\ delivery.call.pos = "done"
    /\ \E r \in {RunHandlers(NewPublish(event_type), 1,
                               HandlersOf(delivery.subscribers, event_type), {}, suspends,
                               [h \in Handlers |-> 0])} :
           delivery' = [delivery EXCEPT
                            !.call = r.call,
                            !.start = HandlersOf(delivery.subscribers, event_type),
                            !.ret = "published", !.ops = @ + 1]
    /\ UNCHANGED exceptDelivery

\* the handler the publish call is suspended in returns, and the call goes
\* on to the next suspension or to its end
DeliveryResume(suspends) ==
    /\ delivery.call.pos = "handler"
    /\ \E r \in {RunHandlers(HandlerDone(delivery.call, delivery.call.cur, "return"), 1,
                               HandlersOf(delivery.subscribers, delivery.call.event_type),
                               {}, suspends, [h \in Handlers |-> 0])} :
           delivery' = [delivery EXCEPT !.call = r.call, !.ret = "resumed"]
    /\ UNCHANGED exceptDelivery

NextDelivery ==
    \/ \E event_type \in EventTypes, h \in Handlers : DeliverySubscribe(event_type, h)
    \/ \E event_type \in EventTypes, h \in Handlers : DeliveryUnsubscribe(event_type, h)
    \/ \E event_type \in EventTypes, suspends \in SUBSET Handlers :
            DeliveryPublish(event_type, suspends)
    \/ \E suspends \in SUBSET Handlers : DeliveryResume(suspends)

SpecDelivery == Init /\ [][NextDelivery]_vars

(***************************************************************************)
(* Actions of the rate limiter of the API                                  *)
(***************************************************************************)
\* rate_limit_middleware: the identifier of a request with an X-API-Key
\* header, and of one without key and token
Identifiers == {"api_key:k1", "ip:192.0.2.1"}

\* rate_limit_middleware(request, call_next) up to the 429
ApiRequest(identifier) ==
    /\ Len(api_limiter.history) < MaxApiCalls
    /\ \E r \in {ApiCheckRateLimit(api_limiter, identifier, clock)} :
         api_limiter' = [api_limiter EXCEPT
            !.minute_windows = r.minute_windows,
            !.hour_windows = r.hour_windows,
            !.history = Append(@, [identifier |-> identifier, at |-> clock,
                                   allowed |-> r.allowed, error |-> r.error])]
    /\ UNCHANGED <<clock, exceptApi>>

\* half a minute, or half an hour, passes
ApiWait(seconds) ==
    /\ api_limiter.waits < MaxApiWaits
    /\ clock' = clock + seconds
    /\ api_limiter' = [api_limiter EXCEPT !.waits = @ + 1]
    /\ UNCHANGED exceptApi

NextApi ==
    \/ \E identifier \in Identifiers : ApiRequest(identifier)
    \/ \E seconds \in {MINUTE \div 2, HOUR \div 2} : ApiWait(seconds)

SpecApi == Init /\ [][NextApi]_vars

(***************************************************************************)
(* Actions of the signal computer, the evaluator and the feed processor    *)
(***************************************************************************)
World == [store |-> rate_limit_store, hist |-> admitted, cache |-> feed_cache, db |-> db]

\* what the network answers for each source during one call
SignalNets == [Sources -> {"feedA", "feedB", "timeout"}]

\* WorldPAM(cfg, db_path).compute_signal(sig_name) / compute_signal_async(sig_name)
ComputeSignalCall(is_async, sig_name, bound, net) ==
    /\ pam_calls < MaxComputes
    /\ \E r \in {ComputeSignalResult(is_async, bound, sig_name, net, World, clock)} :
           /\ rate_limit_store' = r.w.store
           /\ admitted' = r.w.hist
           /\ feed_cache' = r.w.cache
           /\ db' = r.w.db
           /\ sig_ret' = [op |-> IF is_async THEN "compute_signal_async" ELSE "compute_signal",
                          signal |-> sig_name, bound |-> bound, value |-> r.value,
                          vals |-> r.vals, results |-> r.results, persisted |-> r.persisted]
    /\ pam_calls' = pam_calls + 1
    /\ UNCHANGED <<clock, last, db_ret, eval_ret, procVars, moreVars>>

ComputeSignal(sig_name, bound, net) == ComputeSignalCall(FALSE, sig_name, bound, net)

ComputeSignalAsync(sig_name, bound, net) == ComputeSignalCall(TRUE, sig_name, bound, net)

NextSignal ==
    \/ \E sig_name \in Signals, bound \in BOOLEAN, net \in SignalNets :
            ComputeSignal(sig_name, bound, net)
    \/ \E sig_name \in Signals, bound \in BOOLEAN, net \in SignalNets :
            ComputeSignalAsync(sig_name, bound, net)

SpecSignal == Init /\ [][NextSignal]_vars

\* the numbers of trials tried, and the draws tried: signal j draws 1 in the
\* first ones[j] trials, with ones[j] one of 0, 1, n - 1, n
Simulates == {0, 1, MaxSimulate}

DrawChoices(n, m) ==
    {[t \in 1..n |-> [j \in 1..m |-> t <= ones[j]]] :
        ones \in [1..m -> {0, 1, n - 1, n} \cap 0..n]}

\* WorldPAM(cfg, db_path).evaluate(hyp_name, simulate=simulate)
Evaluate(hyp_name, bound, simulate, draws, net) ==
    /\ pam_calls < MaxEvals
    /\ \E r \in {EvaluateResult(FALSE, bound, hyp_name, simulate, draws, net, World, clock)} :
           /\ Feasible(r.details, draws)
           /\ rate_limit_store' = r.w.store
           /\ admitted' = r.w.hist
           /\ feed_cache' = r.w.cache
           /\ db' = r.w.db
           /\ eval_ret' = [op |-> "evaluate", hyp |-> hyp_name, bound |-> bound,
                           simulate |-> simulate, raised |-> r.raised, z |-> r.z,
                           zs |-> r.zs, p |-> r.p, mean |-> r.mean, low |-> r.low,
                           high |-> r.high, sims |-> r.sims, details |-> r.details]
    /\ pam_calls' = pam_calls + 1
    /\ UNCHANGED <<clock, last, db_ret, sig_ret, procVars, moreVars>>

NextEval ==
    \E hyp_name \in Hypotheses, bound \in BOOLEAN, simulate \in Simulates, net \in SignalNets :
        \E draws \in DrawChoices(simulate, Len(HypothesisDefs[hyp_name].signals)) :
            Evaluate(hyp_name, bound, simulate, draws, net)

SpecEval == Init /\ [][NextEval]_vars

INTERVAL_SECONDS == 300

\* FeedProcessor.process_feed(source_name, url, feed_type)
ProcessFeed(source_name, net) ==
    /\ proc_calls < MaxProcess
    /\ \E r \in {ProcessFeedResult(source_name, SourceUrl(source_name),
                                   SourceDefs[source_name].type, net, rate_limit_store,
                                   admitted, feed_cache, last_hashes, clock)} :
           /\ rate_limit_store' = r.store
           /\ admitted' = r.hist
           /\ feed_cache' = r.cache
           /\ last_hashes' = r.hashes
           /\ published' = published \o r.events
           /\ proc_ret' = [op |-> "process_feed", source |-> source_name,
                           updated |-> r.updated, parsed |-> r.parsed,
                           first |-> source_name \notin DOMAIN last_hashes,
                           hash |-> r.hash]
    /\ proc_calls' = proc_calls + 1
    /\ UNCHANGED <<clock, last, dbVars, pamVars, moreVars>>

\* process_feeds_continuously: await asyncio.sleep(interval_seconds)
Sleep ==
    /\ clock < MaxSleeps * INTERVAL_SECONDS
    /\ clock' = clock + INTERVAL_SECONDS
    /\ UNCHANGED <<rate_limit_store, admitted, feed_cache, last, dbVars, pamVars, procVars, moreVars>>

NextFeed ==
    \/ \E source_name \in Sources, net \in Bodies \cup {"timeout"} :
            ProcessFeed(source_name, net)
    \/ Sleep

SpecFeed == Init /\ [][NextFeed]_vars

(***************************************************************************)
(* Specifications of the fetch layer                                       *)
(***************************************************************************)
\* one bucket over time: a public netloc and a blocked address
(***************************************************************************)
(* Actions of the scheduler                                                *)
(***************************************************************************)
\* TaskScheduler.schedule_periodic(job_id, func, interval_seconds, start_immediately)
SchedulePeriodic(job_id, func, start_immediately) ==
    /\ Len(loop_tasks) < MaxTasks
    /\ loop_tasks' = Append(CancelPrior(loop_tasks, tasks, job_id),
                            NewTask(job_id, func, start_immediately))
    /\ jobs' = [jobs EXCEPT ![job_id] = [func |-> func, last_run |-> NONE]]
    /\ tasks' = [tasks EXCEPT ![job_id] = Len(loop_tasks) + 1]
    /\ UNCHANGED exceptSched

\* TaskScheduler.cancel_job(job_id)
CancelJob(job_id) ==
    /\ IF tasks[job_id] # 0
       THEN /\ loop_tasks' = TaskCancel(loop_tasks, tasks[job_id])
            /\ tasks' = [tasks EXCEPT ![job_id] = 0]
            /\ jobs' = [jobs EXCEPT ![job_id] = NONE]
       ELSE UNCHANGED schedVars
    /\ UNCHANGED exceptSched

\* the timer of an asyncio.sleep(interval_seconds) fires
TimerFires(t) ==
    /\ t \in DOMAIN loop_tasks
    /\ loop_tasks[t].pos = "sleep"
    /\ loop_tasks' = [loop_tasks EXCEPT ![t].pos = "timer"]
    /\ UNCHANGED <<tasks, jobs, exceptSched>>

\* the event loop runs a ready task up to its next await
TaskStep(t, outcome) ==
    /\ t \in DOMAIN loop_tasks
    /\ loop_tasks[t].pos # "done"
    /\ loop_tasks[t].must_cancel \/ loop_tasks[t].pos # "sleep"
    /\ loop_tasks' = [loop_tasks EXCEPT ![t] = TaskStepResult(@, outcome)]
    /\ jobs' = IF loop_tasks'[t].pos = "handler" /\ loop_tasks[t].pos # "handler"
               THEN [jobs EXCEPT ![loop_tasks[t].job].last_run = "utcnow"]
               ELSE jobs
    /\ UNCHANGED <<tasks, exceptSched>>

NextSched ==
    \/ \E job_id \in JobIds, func \in Funcs, start_immediately \in BOOLEAN :
            SchedulePeriodic(job_id, func, start_immediately)
    \/ \E job_id \in JobIds : CancelJob(job_id)
    \/ \E t \in 1..MaxTasks : TimerFires(t)
    \/ \E t \in 1..MaxTasks, outcome \in {"return", "raise"} : TaskStep(t, outcome)

SpecSched == Init /\ [][NextSched]_vars

\* the event loop keeps firing due timers and running ready tasks
SpecSchedFair ==
    /\ SpecSched
    /\ \A t \in 1..MaxTasks : WF_vars(TimerFires(t))
    /\ \A t \in 1..MaxTasks : WF_vars(\E outcome \in {"return", "raise"} : TaskStep(t, outcome))

(***************************************************************************)
(* Actions of the event bus                                                *)
(***************************************************************************)
\* EventBus.subscribe(event_type, handler)
Subscribe(event_type, h) ==
    /\ Len(HandlersOf(subscribers, event_type)) < MaxHandlers
    /\ subscribers' = [subscribers EXCEPT
                           ![event_type] = Append(HandlersOf(subscribers, event_type), h)]
    /\ pubs' = IF subscribers[event_type] = NONE THEN Returned(pubs)
               ELSE MarkMutated(Returned(pubs), event_type)
    /\ UNCHANGED <<invoked, exceptBus>>

\* EventBus.unsubscribe(event_type, handler); list.remove raises ValueError
\* when the handler is not in the list
Unsubscribe(event_type, h) ==
    /\ subscribers[event_type] # NONE
    /\ \E i \in DOMAIN subscribers[event_type] : subscribers[event_type][i] = h
    /\ subscribers' = [subscribers EXCEPT ![event_type] = ListRemove(@, h)]
    /\ pubs' = MarkMutated(Returned(pubs), event_type)
    /\ UNCHANGED <<invoked, exceptBus>>

\* await EventBus.publish(event): from the call to the first suspension
Publish(event_type, raises, suspends) ==
    /\ Len(pubs) < MaxPublishes
    /\ \E r \in {RunHandlers(NewPublish(event_type), Len(pubs) + 1,
                               HandlersOf(subscribers, event_type), raises, suspends,
                               invoked)} :
           /\ pubs' = Append(Returned(pubs), r.call)
           /\ invoked' = r.log
    /\ UNCHANGED <<subscribers, exceptBus>>

\* the handler a publish call is suspended in finishes, and the call goes
\* on to the next suspension
PublishResume(id, outcome, raises, suspends) ==
    /\ id \in DOMAIN pubs
    /\ pubs[id].pos = "handler"
    /\ \E r \in {RunHandlers(HandlerDone(pubs[id], pubs[id].cur, outcome), id,
                               HandlersOf(subscribers, pubs[id].event_type),
                               raises, suspends, invoked)} :
           /\ pubs' = [Returned(pubs) EXCEPT ![id] = r.call]
           /\ invoked' = r.log
    /\ UNCHANGED <<subscribers, exceptBus>>

\* EventBus.publish_sync(event)
PublishSync(event_type, raises) ==
    /\ Len(pubs) < MaxPublishes
    /\ \E r \in {RunHandlersSync(NewPublish(event_type), Len(pubs) + 1,
                                   HandlersOf(subscribers, event_type), raises, invoked)} :
           /\ pubs' = Append(Returned(pubs), r.call)
           /\ invoked' = r.log
    /\ UNCHANGED <<subscribers, exceptBus>>

\* the subscriptions made: both handlers listen for signal_update, the
\* plain one for evaluation_update as well
Subscriptions ==
    {<<"signal_update", "hA">>, <<"signal_update", "hB">>, <<"evaluation_update", "hB">>}

NextBus ==
    \/ \E sub \in Subscriptions : Subscribe(sub[1], sub[2])
    \/ \E sub \in Subscriptions : Unsubscribe(sub[1], sub[2])
    \/ \E event_type \in EventTypes, raises \in SUBSET Handlers, suspends \in SUBSET Handlers :
            Publish(event_type, raises, suspends)
    \/ \E id \in 1..MaxPublishes, outcome \in {"return", "raise"},
          raises \in SUBSET Handlers, suspends \in SUBSET Handlers :
            PublishResume(id, outcome, raises, suspends)
    \/ \E event_type \in EventTypes, raises \in SUBSET Handlers :
            PublishSync(event_type, raises)

SpecBus == Init /\ [][NextBus]_vars

(***************************************************************************)
(* Actions of the connection manager                                       *)
(***************************************************************************)
Manager == [active |-> active_connections, subs |-> subscriptions]

\* ConnectionManager.connect(websocket), after websocket.accept()
Connect(c) ==
    /\ active_connections' = active_connections \cup {c}
    /\ subscriptions' = [subscriptions EXCEPT ![c] = {}]
    /\ sends' = Disturbed(SendsOver(sends))
    /\ UNCHANGED exceptWs

\* ConnectionManager.disconnect(websocket)
Disconnect(c) ==
    /\ active_connections' = active_connections \ {c}
    /\ subscriptions' = [subscriptions EXCEPT ![c] = NoKey]
    /\ sends' = Disturbed(SendsOver(sends))
    /\ UNCHANGED exceptWs

\* ConnectionManager.subscribe without the test for the key
SubscribeScenarioAnyway(c, scenario) ==
    /\ subscriptions' = [subscriptions EXCEPT ![c] = SubscriptionsGet(subscriptions, c)
                                                        \cup {scenario}]
    /\ sends' = Disturbed(SendsOver(sends))
    /\ UNCHANGED <<active_connections, exceptWs>>

\* ConnectionManager.subscribe(websocket, scenario)
SubscribeScenario(c, scenario) ==
    /\ subscriptions' = IF subscriptions[c] # NoKey
                        THEN [subscriptions EXCEPT ![c] = @ \cup {scenario}]
                        ELSE subscriptions
    /\ sends' = Disturbed(SendsOver(sends))
    /\ UNCHANGED <<active_connections, exceptWs>>

\* ConnectionManager.unsubscribe(websocket, scenario)
UnsubscribeScenario(c, scenario) ==
    /\ subscriptions' = IF subscriptions[c] # NoKey
                        THEN [subscriptions EXCEPT ![c] = @ \ {scenario}]
                        ELSE subscriptions
    /\ sends' = Disturbed(SendsOver(sends))
    /\ UNCHANGED <<active_connections, exceptWs>>

\* ConnectionManager.send_personal_message(message, websocket)
SendPersonalMessage(c, outcome) ==
    /\ FreeSlots(sends) # {}
    /\ \E m \in {IF outcome = "raise" THEN DisconnectAll(Manager, {c}) ELSE Manager} :
           /\ active_connections' = m.active
           /\ subscriptions' = m.subs
           /\ sends' = [(IF outcome = "raise" THEN Disturbed(SendsOver(sends))
                         ELSE SendsOver(sends)) EXCEPT ![NewSlot(sends)] = PersonalSend(c, outcome)]
    /\ UNCHANGED exceptWs

\* ConnectionManager.broadcast(message, scenario): from the call to the first send
Broadcast(scenario, order) ==
    /\ FreeSlots(sends) # {}
    /\ \E r \in {RunBroadcast(NewBroadcast(scenario, order, active_connections,
                                             subscriptions), Manager)} :
           /\ active_connections' = r.m.active
           /\ subscriptions' = r.m.subs
           /\ sends' = [(IF r.m = Manager THEN SendsOver(sends)
                         ELSE Disturbed(SendsOver(sends))) EXCEPT ![NewSlot(sends)] = r.op]
    /\ UNCHANGED exceptWs

\* broadcast_signal_update(signal_name, value, scenario)
BroadcastSignalUpdate(scenario, order) == Broadcast(scenario, order)

\* broadcast_evaluation_update(hypothesis_name, probability, details)
BroadcastEvaluationUpdate(hypothesis_name, order) == Broadcast(hypothesis_name, order)

\* the send a broadcast is suspended in is over, and the broadcast goes on to
\* its next send or to its end
BroadcastResume(id, outcome) ==
    /\ id \in DOMAIN sends
    /\ sends[id].pos = "send"
    /\ \E r \in {RunBroadcast(SendOver(sends[id], outcome), Manager)} :
           /\ active_connections' = r.m.active
           /\ subscriptions' = r.m.subs
           /\ sends' = [(IF r.m = Manager THEN SendsOver(sends)
                         ELSE Disturbed(SendsOver(sends))) EXCEPT ![id] = r.op]
    /\ UNCHANGED exceptWs

NextWs ==
    \/ \E c \in Clients : Connect(c)
    \/ \E c \in Clients : Disconnect(c)
    \/ \E c \in Clients, scenario \in Scenarios : SubscribeScenario(c, scenario)
    \/ \E c \in Clients, scenario \in Scenarios : UnsubscribeScenario(c, scenario)
    \/ \E c \in Clients, outcome \in {"return", "raise"} : SendPersonalMessage(c, outcome)
    \/ \E scenario \in Scenarios \cup {NONE}, order \in SlotOrders :
            Broadcast(scenario, order)
    \/ \E scenario \in Scenarios \cup {NONE}, order \in SlotOrders :
            BroadcastSignalUpdate(scenario, order)
    \/ \E hypothesis_name \in Scenarios, order \in SlotOrders :
            BroadcastEvaluationUpdate(hypothesis_name, order)
    \/ \E id \in 1..MaxSends, outcome \in {"return", "raise"} : BroadcastResume(id, outcome)

SpecWs == Init /\ [][NextWs]_vars

(***************************************************************************)
(* Actions of the bulk fetch                                               *)
(***************************************************************************)
\* the request lists: up to MaxRequests requests, source names may repeat
RequestLists ==
    UNION {[1..n -> Sources \X {UrlFeed, UrlNews}] : n \in 0..MaxRequests}

\* fetcher.fetch_feeds_parallel(sources)
FetchFeedsParallel(requests, outcomes, order) ==
    /\ fetch_all.calls < MaxBulkCalls
    /\ fetch_all' = [op |-> "fetch_feeds_parallel", calls |-> fetch_all.calls + 1,
                     requests |-> requests,
                     outcomes |-> outcomes,
                     results |-> FetchFeedsParallelResult(requests, outcomes, order)]
    /\ UNCHANGED exceptFetchAll

\* AsyncFetcher.fetch_feeds_parallel(sources)
AsyncFetchFeedsParallel(requests, outcomes) ==
    /\ fetch_all.calls < MaxBulkCalls
    /\ fetch_all' = [op |-> "async_fetch_feeds_parallel", calls |-> fetch_all.calls + 1,
                     requests |-> requests,
                     outcomes |-> outcomes,
                     results |-> AsyncFetchFeedsParallelResult(requests, outcomes)]
    /\ UNCHANGED exceptFetchAll

NextFetchAll ==
    \/ \E requests \in RequestLists :
         \E outcomes \in [DOMAIN requests -> WorkerOutcomes], order \in Orders(Len(requests)) :
            FetchFeedsParallel(requests, outcomes, order)
    \/ \E requests \in RequestLists :
         \E outcomes \in [DOMAIN requests -> WorkerOutcomes] :
            AsyncFetchFeedsParallel(requests, outcomes)

SpecFetchAll == Init /\ [][NextFetchAll]_vars

(***************************************************************************)
(* Actions of a TTLCache                                                   *)
(***************************************************************************)
\* TTLCache.get(key)
KvGet(key) ==
    /\ kv_ret' = [op |-> "get", key |-> key, at |-> clock,
                  value |-> CacheValue(kv_cache, key, clock)]
    /\ kv_cache' = CacheAfterGet(kv_cache, key, clock)
    /\ UNCHANGED <<kv_sets, exceptKv>>

\* TTLCache.set(key, value, ttl_seconds)
KvSet(key, value, ttl_seconds) ==
    /\ kv_cache' = CacheSet(kv_cache, key, value, EffectiveTtl(ttl_seconds), clock)
    /\ kv_sets' = [kv_sets EXCEPT ![key] = [set |-> TRUE, value |-> value,
                                             ttl_seconds |-> ttl_seconds, at |-> clock]]
    /\ kv_ret' = [op |-> "set", key |-> key, at |-> clock, value |-> NONE]
    /\ UNCHANGED exceptKv

\* TTLCache.delete(key)
KvDelete(key) ==
    /\ kv_cache' = CacheDelete(kv_cache, key)
    /\ kv_sets' = [kv_sets EXCEPT ![key] = NoSet]
    /\ kv_ret' = [op |-> "delete", key |-> key, at |-> clock, value |-> NONE]
    /\ UNCHANGED exceptKv

\* TTLCache.clear()
KvClear ==
    /\ kv_cache' = CacheClear(kv_cache)
    /\ kv_sets' = [k \in KvKeys |-> NoSet]
    /\ kv_ret' = [op |-> "clear", key |-> "", at |-> clock, value |-> NONE]
    /\ UNCHANGED exceptKv

\* TTLCache.cleanup_expired()
KvCleanupExpired ==
    /\ kv_cache' = CacheCleanupExpired(kv_cache, clock)
    /\ kv_ret' = [op |-> "cleanup_expired", key |-> "", at |-> clock, value |-> NONE]
    /\ UNCHANGED <<kv_sets, exceptKv>>

\* the TTLs passed to set: none, one below and one above the default, and 0
TtlChoices == {<<>>, <<0>>, <<10>>, <<100>>}

NextKv ==
    \/ Tick
    \/ \E key \in KvKeys : KvGet(key)
    \/ \E key \in KvKeys, value \in {"value1", "value2"}, ttl_seconds \in TtlChoices :
            KvSet(key, value, ttl_seconds)
    \/ \E key \in KvKeys : KvDelete(key)
    \/ KvClear
    \/ KvCleanupExpired

SpecKv == Init /\ [][NextKv]_vars

RateUrls == {UrlFeed, Url10}

NextRate ==
    \/ Tick
    \/ CheckRateLimit(UrlFeed)
    \/ \E url \in RateUrls, net \in {"feedA", "timeout"} : FetchUrlSecure(url, NoWhitelist, net)

SpecRate == Init /\ [][NextRate]_vars

\* back-to-back requests to one host written with two netlocs
HostUrls == {UrlFeed, UrlFeedPort}

NextHost ==
    \/ \E url \in HostUrls : CheckRateLimit(url)
    \/ \E url \in HostUrls, net \in {"feedA", "timeout"} : FetchUrlSecure(url, NoWhitelist, net)

SpecHost == Init /\ [][NextHost]_vars

\* back-to-back calls of the two fetchers
FetchUrls == {UrlFeed} \cup BlockedUrls

NextFetch ==
    \/ \E url \in FetchUrls, wl \in Whitelists, net \in FetchOutcomes :
          FetchSingleFeed(url, wl, net)
    \/ \E url \in FetchUrls, wl \in Whitelists, net \in FetchOutcomes :
          AsyncFetchSingleFeed(url, wl, net)

SpecFetch == Init /\ [][NextFetch]_vars

Next == NextRate \/ NextHost \/ NextFetch \/ NextStore \/ NextSignal \/ NextEval \/ NextFeed
            \/ NextSched \/ NextBus \/ NextWs \/ NextFetchAll \/ NextKv \/ NextCleanup
            \/ NextCfg \/ NextAlerts \/ NextApi \/ NextAudit \/ NextMetrics
            \/ NextUpsert \/ NextUrl \/ NextBucket \/ NextCache \/ NextSeverity \/ NextStatus \/ NextDelivery

Spec == Init /\ [][Next]_vars

(***************************************************************************)
(* Properties of the fetch layer                                           *)
(***************************************************************************)
Range(seq) == {seq[i] : i \in DOMAIN seq}

IsPrefix(s, t) == Len(s) <= Len(t) /\ s = SubSeq(t, 1, Len(s))

Hosts == {k[1] : k \in Netlocs}

\* number of admitted calls of host h with a timestamp in [t, t + RATE_LIMIT_WINDOW)
RECURSIVE SumOver(_, _)
SumOver(f, S) ==
    IF S = {} THEN 0
    ELSE LET x == CHOOSE y \in S : TRUE IN f[x] + SumOver(f, S \ {x})

InWindow(hist, t) ==
    Cardinality({i \in DOMAIN hist : t <= hist[i] /\ hist[i] < t + RATE_LIMIT_WINDOW})

AdmittedInWindow(h, t) ==
    SumOver([k \in DOMAIN admitted |-> InWindow(admitted[k], t)],
            {k \in DOMAIN admitted : k[1] = h})

FetcherOps == {"fetch_single_feed", "async_fetch_single_feed"}

ReachedNetwork == "http" \in Range(last.steps)

CacheHit == last.success /\ last.steps # <<>> /\ last.steps[Len(last.steps)] = "cache"

ConsumedSlot == "rate" \in Range(last.steps) /\ ~last.limited

\* Each bucket, taken by its key (the netloc), never admits more than
\* RATE_LIMIT_REQUESTS calls within a window.
BucketLimit ==
    \A k \in DOMAIN admitted, t \in 0..clock :
        InWindow(admitted[k], t) <= RATE_LIMIT_REQUESTS

C1_Window ==
    \A h \in Hosts, t \in 0..clock : AdmittedInWindow(h, t) <= RATE_LIMIT_REQUESTS

C1_Step ==
    (/\ last'.op \in {"check_rate_limit", "fetch_url_secure"}
     /\ AdmittedInWindow(Hostname(last'.url), clock - RATE_LIMIT_WINDOW + 1) >= RATE_LIMIT_REQUESTS)
    => (/\ ~last'.success
        /\ admitted' = admitted
        /\ "http" \notin Range(last'.steps))

\* C1: for every host at most 10 admitted calls have timestamps within any
\* 60-second window, and once 10 admitted calls lie within the last 60
\* seconds the next call for that host returns False, records no timestamp
\* and issues no HTTP request.
C1_PerHostLimit == []C1_Window /\ [][C1_Step]_vars

\* the URLs the SSRF guard must refuse, read off the URL alone
PrivateSecondOctets172 ==
    {"16", "17", "18", "19", "20", "21", "22", "23",
     "24", "25", "26", "27", "28", "29", "30", "31"}

HardBlocked(url) ==
    \/ url.scheme \notin {"http", "https"}
    \/ url.host = <<>>
    \/ url.host = <<"localhost">>
    \/ url.host = <<"127", "0", "0", "1">>
    \/ url.host = <<"0", "0", "0", "0">>
    \/ /\ Len(url.host) = 4
       /\ \/ url.host[1] = "10"
          \/ url.host[1] = "172" /\ url.host[2] \in PrivateSecondOctets172
          \/ url.host[1] = "192" /\ url.host[2] = "168"
          \/ url.host[1] = "169" /\ url.host[2] = "254"

\* C2: a Fetch of a URL with a scheme other than http/https, an empty
\* hostname, or a hostname that is localhost, 127.0.0.1, 0.0.0.0 or in
\* 10/8, 172.16/12, 192.168/16, 169.254/16 returns ok=false and never reaches
\* the network, whatever the cache and the rate limiter hold.
C2_SsrfGuard ==
    (last.op \in FetcherOps /\ HardBlocked(last.url))
        => (~last.success /\ ~ReachedNetwork)

\* a blocked URL was fetched while the cache held a feed and a bucket was full
C2_Witness ==
    /\ last.op \in FetcherOps
    /\ HardBlocked(last.url)
    /\ Len(last.url.host) = 4
    /\ UrlFeed \in DOMAIN feed_cache
    /\ Len(Get(rate_limit_store, Netloc(UrlFeed), <<>>)) = RATE_LIMIT_REQUESTS

PolicyOrder == <<"validate", "rate", "cache", "http">>

C3_State ==
    last.op \in FetcherOps =>
        /\ IsPrefix(last.steps, PolicyOrder)
        /\ ~ValidateUrl(last.url, last.allowed) => ~CacheHit
        /\ CacheHit => ConsumedSlot

C3_Step ==
    (/\ last'.op \in FetcherOps
     /\ ~RateAllowed(rate_limit_store, last'.url, clock))
    => ~(CacheHit')

\* C3: in both fetchers every call runs URL validation, then the rate-limit
\* check, then the cache lookup, then the HTTP GET; so a call whose URL
\* fails validation or whose host is rate limited never returns cached bytes
\* with ok=true, and every cache hit has consumed a rate-limit slot.
C3_PolicyOrder == []C3_State /\ [][C3_Step]_vars

\* C4: when the per-host limit is exceeded, Fetch returns ok=false with
\* error = "rate limited" and does not attempt the network.
C4_RateLimitedError ==
    (last.op \in FetcherOps /\ last.limited)
        => (~last.success /\ last.error = "rate limited" /\ ~ReachedNetwork)

(***************************************************************************)
(* Properties of the store                                                 *)
(***************************************************************************)
StoreFeedOps == {"store_feed_item", "async_store_feed_item"}

\* the call stored a (source_name, title, summary) some row already holds
Restored(d, r) ==
    \E i \in DOMAIN d.feed_items :
        /\ d.feed_items[i].source_name = r.source_name
        /\ d.feed_items[i].title = r.title
        /\ d.feed_items[i].summary = r.summary

C5_Unique ==
    \A i, j \in DOMAIN db.feed_items :
        (/\ db.feed_items[i].source_name = db.feed_items[j].source_name
         /\ db.feed_items[i].content_hash = db.feed_items[j].content_hash) => i = j

C5_Step ==
    (db_ret'.op \in StoreFeedOps /\ Restored(db, db_ret')) => db'.feed_items = db.feed_items

\* C5: feed_items holds at most one row per (source_name, content_hash), and
\* store_feed_item called with a source, title and summary already stored
\* adds no row and changes no existing row.
C5_IdempotentStore == []C5_Unique /\ [][C5_Step]_vars

\* a stored item was stored again next to rows of another item and source
C5_Witness ==
    /\ db_ret.op \in StoreFeedOps
    /\ db_ret.existing # 0
    /\ Restored(db, db_ret)
    /\ Len(db.feed_items) >= 2
    /\ db.feed_seq > Len(db.feed_items)

\* C6: store_feed_item called with a (source_name, title, summary) already
\* stored returns the id of the existing row, whatever rows were inserted on
\* the store in between.
C6_DuplicateReturnsId ==
    (/\ db_ret.op \in StoreFeedOps
     /\ db_ret.existing # 0
     /\ Restored(db, db_ret)) => db_ret.id = db_ret.existing

(***************************************************************************)
(* Properties of the signal computer                                       *)
(***************************************************************************)
ComputeOps == {"compute_signal", "compute_signal_async"}

\* the bound sources of the last call, and which of them were usable
BoundSources == Binding(sig_ret.signal).sources

UsableAt(i) == Usable(sig_ret.results, BoundSources[i])

\* the values of the usable sources, in binding order
UsableVals ==
    LET idx == SelectSeq([i \in 1..Len(BoundSources) |-> i], LAMBDA i : UsableAt(i))
    IN  [k \in 1..Len(idx) |-> sig_ret.vals[idx[k]]]

\* C7: for every signal, aggregation mode, number of bound sources and
\* combination of per-source hit counts and fetch failures, the value
\* compute_signal returns and every value persisted as SignalValue lie in
\* [0, cap] of the signal.
C7_CapClamp ==
    /\ sig_ret.op \in ComputeOps =>
            /\ 0 <= sig_ret.value
            /\ sig_ret.value <= SignalDefs[sig_ret.signal].cap
    /\ \A i \in DOMAIN db.signal_values :
            /\ 0 <= db.signal_values[i].value
            /\ db.signal_values[i].value <= SignalDefs[db.signal_values[i].signal_name].cap

\* a sum over two usable sources exceeded the cap, was returned and persisted clamped
C7_Witness ==
    /\ sig_ret.op \in ComputeOps
    /\ sig_ret.persisted
    /\ Len(sig_ret.vals) = 2
    /\ SumSeq(sig_ret.vals) > SignalDefs[sig_ret.signal].cap
    /\ sig_ret.value = SignalDefs[sig_ret.signal].cap
    /\ db.signal_values[Len(db.signal_values)].value = sig_ret.value

\* C8: a bound source whose fetch fails contributes exactly 0, every other
\* bound source is still fetched, parsed and scored, and the value returned
\* is the aggregation over the usable sources alone, clamped; with a Store
\* bound the outcome of every source is recorded.
C8_FailedSourceIsZero ==
    sig_ret.op \in ComputeOps =>
        /\ Len(sig_ret.vals) = Len(BoundSources)
        /\ \A i \in 1..Len(BoundSources) :
            /\ BoundSources[i] \in DOMAIN sig_ret.results
            /\ sig_ret.results[BoundSources[i]].steps # <<>>
            /\ ~UsableAt(i) => sig_ret.vals[i] = 0
            /\ UsableAt(i) =>
                    sig_ret.vals[i] =
                        NormalizedKeywordHits(
                            ParseFeedBytes(SourceDefs[BoundSources[i]].type,
                                           sig_ret.results[BoundSources[i]].data),
                            Keywords(Binding(sig_ret.signal).keywords),
                            Binding(sig_ret.signal).window_days)
            /\ sig_ret.bound =>
                    /\ BoundSources[i] \in DOMAIN db.source_status
                    /\ db.source_status[BoundSources[i]].last_fetch_at = clock
                    /\ db.source_status[BoundSources[i]].last_error =
                            IF UsableAt(i) THEN NONE
                            ELSE sig_ret.results[BoundSources[i]].error
        /\ sig_ret.value =
                IF UsableVals = <<>> THEN 0
                ELSE Min(Aggregate(UsableVals, SignalDefs[sig_ret.signal].aggregation),
                         SignalDefs[sig_ret.signal].cap)

\* with a Store bound, the first source failed and the second one scored
C8_Witness ==
    /\ sig_ret.op \in ComputeOps
    /\ sig_ret.bound
    /\ Len(BoundSources) = 2
    /\ ~UsableAt(1)
    /\ UsableAt(2)
    /\ sig_ret.vals[2] > 0
    /\ sig_ret.value = sig_ret.vals[2]
    /\ db.source_status[BoundSources[1]].error_count > 0

(***************************************************************************)
(* Properties of the evaluator                                             *)
(***************************************************************************)
Simulated == eval_ret.op = "evaluate" /\ eval_ret.simulate > 0

C10_Step ==
    (proc_calls' = proc_calls + 1 /\ proc_ret'.parsed) =>
        IF proc_ret'.source \notin DOMAIN last_hashes
        THEN /\ proc_ret'.source \in DOMAIN last_hashes'
             /\ published' = published
        ELSE published' # published =>
                last_hashes'[proc_ret'.source] # last_hashes[proc_ret'.source]

EventsOf(source_name) ==
    SelectSeq(published, LAMBDA e : e.event_type = "feed_updated" /\ e.source = source_name)

\* a step of process_feed that parsed items whose hash is not the stored one
\* publishes exactly one feed_updated for the source and stores the hash; a
\* step that parsed items with the stored hash publishes and stores nothing
C11_Step ==
    (proc_calls' = proc_calls + 1 /\ proc_ret'.parsed) =>
        LET s == proc_ret'.source
            h == proc_ret'.hash
        IN  IF s \in DOMAIN last_hashes /\ last_hashes[s] = h
            THEN published' = published /\ last_hashes' = last_hashes
            ELSE /\ Len(published') = Len(published) + 1
                 /\ SubSeq(published', 1, Len(published)) = published
                 /\ published'[Len(published')].event_type = "feed_updated"
                 /\ published'[Len(published')].source = s
                 /\ last_hashes' = Put(last_hashes, s, h)

\* C11: from a source with no stored hash, processing the same parsed items
\* twice publishes feed_updated once in total, further processing of the same
\* items publishes nothing, and each later processing whose first-10-items
\* hash differs from the stored one publishes exactly one feed_updated and
\* replaces the stored hash.
C11_OncePerChange == [][C11_Step]_vars

\* the same items were processed again: the call parsed them, published
\* nothing, and the source has exactly one feed_updated in total
C11_Witness ==
    /\ proc_ret.op = "process_feed"
    /\ proc_ret.parsed
    /\ ~proc_ret.first
    /\ ~proc_ret.updated
    /\ Len(EventsOf(proc_ret.source)) = 1

\* a later processing with a different hash published a second event
C11_WitnessChange ==
    /\ proc_ret.op = "process_feed"
    /\ proc_ret.updated
    /\ ~proc_ret.first
    /\ Len(EventsOf(proc_ret.source)) = 2

(***************************************************************************)
(* Properties of the scheduler                                             *)
(***************************************************************************)
\* the tasks of a job that are neither finished nor asked to cancel
LiveTasks(job_id) ==
    {t \in DOMAIN loop_tasks : /\ loop_tasks[t].job = job_id
                               /\ loop_tasks[t].pos # "done"
                               /\ ~loop_tasks[t].must_cancel}

\* task t enters await func() in this step
HandlerStarts(t) ==
    /\ t \in DOMAIN loop_tasks
    /\ loop_tasks[t].pos # "handler"
    /\ loop_tasks'[t].pos = "handler"

C12_AtMostOne ==
    \A job_id \in JobIds :
        /\ Cardinality(LiveTasks(job_id)) <= 1
        /\ LiveTasks(job_id) \subseteq {tasks[job_id]}

C12_Step ==
    /\ \A t \in 1..MaxTasks : HandlerStarts(t) => tasks[loop_tasks[t].job] = t
    /\ Len(loop_tasks') = Len(loop_tasks) + 1 =>
            LET job_id == loop_tasks'[Len(loop_tasks')].job
                prior == tasks[job_id]
            IN  prior # 0 => \/ loop_tasks'[prior].must_cancel
                             \/ loop_tasks'[prior].pos = "done"

\* C12: schedule_periodic on a job_id already scheduled cancels the prior
\* task before it creates the new one: at most one task per job_id is not
\* cancelled, whatever schedule_periodic and cancel_job calls were made, and
\* the handler of a replaced task is never started again after the call.
C12_CancelsPrior == []C12_AtMostOne /\ [][C12_Step]_vars

\* a job was re-scheduled while its first task was in the handler: the first
\* task has ended and the second one runs the handler
C12_Witness ==
    /\ Len(loop_tasks) >= 2
    /\ loop_tasks[1].job = loop_tasks[2].job
    /\ loop_tasks[1].pos = "done"
    /\ loop_tasks[1].must_cancel
    /\ tasks[loop_tasks[2].job] = 2
    /\ loop_tasks[2].pos = "handler"

\* a task whose handler raised on its last run and that nobody cancelled
FailedTick(t) ==
    /\ t \in DOMAIN loop_tasks
    /\ loop_tasks[t].raised
    /\ loop_tasks[t].pos = "sleep"
    /\ ~loop_tasks[t].must_cancel

\* the handler of task t finishes in this step
HandlerEnds(t) ==
    /\ t \in DOMAIN loop_tasks
    /\ loop_tasks[t].pos = "handler"
    /\ ~loop_tasks[t].must_cancel
    /\ loop_tasks'[t] # loop_tasks[t]

\* task t is in the handler again, or was cancelled or replaced
NextTick(t) ==
    /\ t \in DOMAIN loop_tasks
    /\ loop_tasks[t].pos = "handler" \/ loop_tasks[t].must_cancel

C13_Step ==
    \A t \in 1..MaxTasks :
        HandlerEnds(t) => loop_tasks'[t].pos = "sleep" \/ loop_tasks'[t].must_cancel

\* C13: a handler that raises on some tick leaves the job's task alive, and
\* the handler is invoked again after the next interval; this holds on every
\* tick while the job is neither cancelled nor re-scheduled.
C13_FailureKeepsSeries ==
    /\ [][C13_Step]_vars
    /\ \A t \in 1..MaxTasks :
          FailedTick(t) ~> NextTick(t)

\* the handler raised on one tick, raised again on the next, and the task
\* is in the handler once more
C13_Witness ==
    \E t \in DOMAIN loop_tasks :
        /\ loop_tasks[t].raised
        /\ loop_tasks[t].pos = "handler"
        /\ ~loop_tasks[t].must_cancel

(***************************************************************************)
(* Properties of the event bus                                             *)
(***************************************************************************)
\* publish call id returns in this step
PublishReturns(id) ==
    /\ id \in DOMAIN pubs'
    /\ pubs'[id].pos = "done"
    /\ id \in DOMAIN pubs => pubs[id].pos # "done"

C14_Step ==
    \A id \in 1..MaxPublishes :
        (PublishReturns(id) /\ pubs'[id].failed # {} /\ ~pubs'[id].mutated) =>
            /\ ~pubs'[id].error
            /\ \A h \in Handlers :
                   pubs'[id].calls[h] =
                       Occurrences(HandlersOf(subscribers', pubs'[id].event_type), h)

\* C14: when publish(event) runs and a handler subscribed to the event's
\* type raises, every other handler subscribed to that type is still invoked
\* with the event exactly once, and publish raises nothing to the publisher.
C14_RaisingHandlerIsolated == [][C14_Step]_vars

\* a publish returned after its first handler raised and its second handler
\* was invoked
C14_Witness ==
    \E id \in DOMAIN pubs :
        /\ pubs[id].pos = "done"
        /\ ~pubs[id].mutated
        /\ ~pubs[id].error
        /\ Len(HandlersOf(subscribers, pubs[id].event_type)) = 2
        /\ HandlersOf(subscribers, pubs[id].event_type)[1] \in pubs[id].failed
        /\ \E h \in Handlers \ pubs[id].failed : pubs[id].calls[h] = 1

\* C15: for every subscriber and every two events of a type it subscribes to,
\* if publish(e1) is called before publish(e2) the handler is invoked with e1
\* before it is invoked with e2, also when the publish calls run as
\* concurrent coroutines and an earlier handler suspends while handling e1.
C15_PublicationOrder == [][\A h \in Handlers : invoked'[h] >= invoked[h]]_vars

(***************************************************************************)
(* Properties of the connection manager                                    *)
(***************************************************************************)
\* the call in slot i ends in this step
SendEnds(i) ==
    /\ sends'[i] # sends[i]
    /\ sends'[i].pos \in {"done", "raised"}

C16_Step ==
    \A i \in 1..MaxSends :
        (SendEnds(i) /\ sends'[i].kind = "broadcast" /\ ~sends'[i].disturbed) =>
            /\ sends'[i].pos = "done"
            /\ sends'[i].sent = sends'[i].target

\* C16: broadcast(message, scenario) sends to exactly the active connections
\* whose subscription set contains scenario, and to every active connection
\* when no scenario is given, whatever connect, subscribe, unsubscribe and
\* disconnect calls preceded it.
C16_BroadcastTargets == [][C16_Step]_vars

\* a broadcast for a scenario returned after sending to the one subscriber
\* and not to the other active connection
C16_Witness ==
    \E i \in 1..MaxSends :
        /\ sends[i].kind = "broadcast"
        /\ sends[i].pos = "done"
        /\ ~sends[i].disturbed
        /\ Filtered(sends[i].scenario)
        /\ sends[i].sent # {}
        /\ sends[i].sent = sends[i].target
        /\ sends[i].disconnected = {}
        /\ active_connections \ sends[i].sent # {}

C17_Step ==
    \A i \in 1..MaxSends :
        SendEnds(i) =>
            \A c \in sends'[i].disconnected :
                /\ c \notin active_connections'
                /\ subscriptions'[c] = NoKey

\* C17: whenever a send to a client fails, in broadcast or in
\* send_personal_message, the client is out of the active connections and
\* its subscription set is released when the operation is over, so that no
\* later broadcast sends to it.
C17_FailedClientRemoved == [][C17_Step]_vars

(***************************************************************************)
(* Properties of the bulk fetch                                            *)
(***************************************************************************)
FetchAllOps == {"fetch_feeds_parallel", "async_fetch_feeds_parallel"}

\* the source names of the requests
RequestNames(requests) == {requests[i][1] : i \in DOMAIN requests}

\* what request i leaves in the map
ResultOf(i) ==
    IF fetch_all.outcomes[i] = "raise" THEN SyntheticResult(fetch_all.requests[i][1])
    ELSE WorkerResult(fetch_all.requests[i], fetch_all.outcomes[i])

\* C18, as claimed: fetch_feeds_parallel returns a map holding one
\* FetchResult for every input request, including requests whose worker
\* raised and inputs that share a source_name with another input.
C18_OnePerInput ==
    fetch_all.op \in FetchAllOps =>
        /\ Cardinality(DOMAIN fetch_all.results) = Len(fetch_all.requests)
        /\ \A i \in DOMAIN fetch_all.requests :
               fetch_all.requests[i][1] \in DOMAIN fetch_all.results

\* C18, amended: the map holds exactly one FetchResult for every source_name
\* among the inputs, including names whose worker raised (a synthetic error
\* result); inputs that share a source_name share one entry, which is the
\* result of one of them.
C18_OnePerName ==
    fetch_all.op \in FetchAllOps =>
        /\ DOMAIN fetch_all.results = RequestNames(fetch_all.requests)
        /\ \A n \in DOMAIN fetch_all.results :
               \E i \in DOMAIN fetch_all.requests :
                   /\ fetch_all.requests[i][1] = n
                   /\ fetch_all.results[n] = ResultOf(i)

\* two requests with one source name and different URLs, the worker of the
\* one raised: the map holds a single entry for the name
C18_Witness ==
    /\ fetch_all.op \in FetchAllOps
    /\ Len(fetch_all.requests) = 2
    /\ fetch_all.requests[1][1] = fetch_all.requests[2][1]
    /\ fetch_all.requests[1][2] # fetch_all.requests[2][2]
    /\ fetch_all.outcomes[1] = "ok"
    /\ fetch_all.outcomes[2] = "raise"
    /\ Cardinality(DOMAIN fetch_all.results) = 1

(***************************************************************************)
(* Properties of the TTLCache                                              *)
(***************************************************************************)
\* the most recent set of the key a get asked for, and when its TTL is over
SetOfGet == kv_sets[kv_ret.key]

ExpiryOfGet ==
    SetOfGet.at + (IF SetOfGet.ttl_seconds = <<>> THEN DefaultTtl ELSE SetOfGet.ttl_seconds[1])

\* C19: get(key) returns the value of the most recent set(key, ...) while
\* its TTL has not elapsed and no delete or clear followed it, and None once
\* the TTL has elapsed; a get that finds an expired entry removes it; a TTL
\* passed to set overrides the default TTL of the cache.
C19_GetWithinTtl ==
    kv_ret.op = "get" =>
        /\ ~SetOfGet.set => kv_ret.value = NONE
        /\ (SetOfGet.set /\ kv_ret.at < ExpiryOfGet) => kv_ret.value = SetOfGet.value
        /\ (SetOfGet.set /\ kv_ret.at > ExpiryOfGet) =>
               /\ kv_ret.value = NONE
               /\ kv_ret.key \notin DOMAIN kv_cache

\* a get found the entry of a set with a TTL below the default expired, at
\* a time the default TTL would not have been over, and removed it
C19_Witness ==
    /\ kv_ret.op = "get"
    /\ SetOfGet.set
    /\ SetOfGet.ttl_seconds # <<>>
    /\ kv_ret.at > ExpiryOfGet
    /\ kv_ret.at < SetOfGet.at + DefaultTtl
    /\ kv_ret.value = NONE
    /\ kv_ret.key \notin DOMAIN kv_cache

(***************************************************************************)
(* Properties of cleanup_old_data                                          *)
(***************************************************************************)
\* the creation time column of each table, and the key of its count
CreatedColumn ==
    [feed_items |-> "fetched_at", signal_values |-> "computed_at",
     hypothesis_evaluations |-> "evaluated_at"]

CountKey ==
    [feed_items |-> "feed_items", signal_values |-> "signals",
     hypothesis_evaluations |-> "evaluations"]

RowsOf(rows) == {rows[i] : i \in DOMAIN rows}

\* the instant now minus days of the last clean-up
CleanupInstant == cleanup_ret.at - cleanup_ret.days * SecondsPerDay

\* C20: cleanup_old_data(days) deletes from feed_items, signal_values and
\* hypothesis_evaluations exactly the rows created before now minus days and
\* keeps every row created after that instant; the counts returned are the
\* numbers of rows deleted per table.  (A row whose creation falls in the
\* very second of that instant may be on either side of it.)
C20_CleanupExact ==
    cleanup_ret.op = "cleanup_old_data" =>
        \A table \in DOMAIN CreatedColumn :
            LET before == RowsOf(cleanup_ret.before[table])
                after == RowsOf(cleanup_ret.after[table])
                created(row) == row[CreatedColumn[table]]
            IN  /\ after \subseteq before
                /\ \A row \in before : created(row) < CleanupInstant => row \notin after
                /\ \A row \in before : created(row) > CleanupInstant => row \in after
                /\ cleanup_ret.counts[CountKey[table]]
                       = Len(cleanup_ret.before[table]) - Len(cleanup_ret.after[table])

(***************************************************************************)
(* Properties of validate_config                                           *)
(***************************************************************************)
\* the names defined by a section
DefinedNames(entries) == {entries[i].name : i \in DOMAIN entries} \ {""}

\* the violations of a document, each with the place it is found at; the
\* unknown references of bindings to signals are kept apart
NameViolations(section, entries) ==
    {<<section, i, "name">> : i \in {j \in DOMAIN entries : entries[j].name = ""}}
    \cup {<<section, i, "duplicate">> :
             i \in {j \in DOMAIN entries :
                        /\ entries[j].name # ""
                        /\ \E k \in 1..(j - 1) : entries[k].name = entries[j].name}}

SourceViolations(config) ==
    LET e == config.sources
    IN  {<<"sources", i, "url">> : i \in {j \in DOMAIN e : e[j].url = ""}}
        \cup {<<"sources", i, "kind">> : i \in {j \in DOMAIN e : e[j].type \notin {"rss", "atom"}}}
        \cup {<<"sources", i, "timeout">> : i \in {j \in DOMAIN e : e[j].timeout <= 0}}

SignalViolations(config) ==
    LET e == config.signals
    IN  {<<"signals", i, "aggregation">> :
            i \in {j \in DOMAIN e : e[j].aggregation \notin {"sum", "max"}}}
        \cup {<<"signals", i, "cap">> : i \in {j \in DOMAIN e : e[j].cap <= 0}}

HypothesisViolations(config) ==
    LET e == config.hypotheses
    IN  {<<"hypotheses", i, "prior">> :
            i \in {j \in DOMAIN e : e[j].prior < 0 \/ e[j].prior > 1000}}
        \cup UNION {{<<"hypotheses", i, "signal", r>> :
                        r \in {q \in DOMAIN e[i].signals :
                                  e[i].signals[q] \notin DefinedNames(config.signals)}} :
                    i \in DOMAIN e}

RefsOf(binding, key) == IF key \in DOMAIN binding THEN binding[key] ELSE <<>>

BindingViolations(config) ==
    LET b == config.signal_bindings
    IN  UNION {{<<"signal_bindings", i, "source", r>> :
                    r \in {q \in DOMAIN RefsOf(b[i][2], "sources") :
                              RefsOf(b[i][2], "sources")[q] \notin DefinedNames(config.sources)}} :
                i \in DOMAIN b}
        \cup UNION {{<<"signal_bindings", i, "keyword_set", r>> :
                    r \in {q \in DOMAIN RefsOf(b[i][2], "keywords") :
                              RefsOf(b[i][2], "keywords")[q] \notin config.keyword_sets}} :
                i \in DOMAIN b}
        \cup {<<"signal_bindings", i, "window_days">> :
                i \in {j \in DOMAIN b :
                          /\ "window_days" \in DOMAIN b[j][2]
                          /\ ~(b[j][2].window_days.numeric /\ b[j][2].window_days.n > 0)}}

ListedViolations(config) ==
    NameViolations("sources", config.sources)
    \cup NameViolations("signals", config.signals)
    \cup NameViolations("hypotheses", config.hypotheses)
    \cup SourceViolations(config) \cup SignalViolations(config)
    \cup HypothesisViolations(config) \cup BindingViolations(config)

UnknownSignalBindings(config) ==
    {<<"signal_bindings", i, "signal">> :
        i \in {j \in DOMAIN config.signal_bindings :
                  config.signal_bindings[j][1] \notin DefinedNames(config.signals)}}

\* C21 as stated: validate_config returns an empty list if and only if the
\* document has none of the violations of the list (duplicate name, unknown
\* hypothesis-to-signal, binding-to-source or binding-to-keyword-set
\* reference, prior, cap, timeout, window_days, kind, aggregation, empty url
\* or name).
C21_EmptyIffListed ==
    cfg_ret.op = "validate_config" =>
        (cfg_ret.errors = <<>> <=> ListedViolations(cfg_ret.config) = {})

\* C21: validate_config returns one error for every violation of the
\* document, a binding for an unknown signal being a violation too, so the
\* list is empty exactly when there is none; _load_config_impl with
\* validation raises exactly when the list is not empty.
C21_OneErrorPerViolation ==
    LET all == ListedViolations(cfg_ret.config) \cup UnknownSignalBindings(cfg_ret.config)
    IN  /\ cfg_ret.op = "validate_config" => Len(cfg_ret.errors) = Cardinality(all)
        /\ (cfg_ret.op = "load_config" /\ cfg_ret.validate) => (cfg_ret.raised <=> all # {})

\* a document with several violations got one error for each
C21_Witness ==
    /\ cfg_ret.op = "validate_config"
    /\ Len(cfg_ret.errors) >= 3
    /\ UnknownSignalBindings(cfg_ret.config) # {}
    /\ Len(cfg_ret.errors)
         = Cardinality(ListedViolations(cfg_ret.config)
                       \cup UnknownSignalBindings(cfg_ret.config))

\* a load with validation raised
C21_WitnessLoad == cfg_ret.op = "load_config" /\ cfg_ret.validate /\ cfg_ret.raised

(***************************************************************************)
(* Properties of the alert manager                                         *)
(***************************************************************************)
\* the alerts the last step appended
NewAlerts == SubSeq(alert_mgr'.alerts, Len(alert_mgr.alerts) + 1, Len(alert_mgr'.alerts))

AlertsOf(alerts, rule_id) == {i \in DOMAIN alerts : alerts[i].rule_id = rule_id}

\* the filter of a rule matches the event: scenario for evaluation_update,
\* signal for signal_update
FilterMatches(rule, event) ==
    LET filter == IF event.type = "evaluation_update" THEN rule.scenario ELSE rule.signal
    IN  filter = NONE \/ filter = event.subject

\* the condition of a rule holds for a value, prior being the value the
\* rule observed before (-1: none)
ConditionHolds(rule, value, prior) ==
    CASE rule.condition = "greater_than" -> value > rule.threshold
      [] rule.condition = "less_than" -> value < rule.threshold
      [] rule.condition = "equals" -> value = rule.threshold
      [] OTHER -> prior # -1 /\ Abs(value - prior) >= rule.threshold

\* C22: for every signal_update or evaluation_update event and every
\* enabled rule whose filter matches it, the alert manager appends exactly
\* one Alert if the condition of the rule (greater_than, less_than, equals,
\* change) holds for the value of the event and none otherwise; a disabled
\* rule never produces an Alert.
C22_Step ==
    alert_mgr'.events # alert_mgr.events =>
        \A id \in DOMAIN alert_mgr.rules :
            LET rule == alert_mgr.rules[id]
                event == alert_mgr'.event
            IN  /\ ~rule.enabled => AlertsOf(NewAlerts, id) = {}
                /\ (rule.enabled /\ FilterMatches(rule, event)) =>
                       Cardinality(AlertsOf(NewAlerts, id))
                          = IF ConditionHolds(rule, event.value, alert_mgr.seen[id])
                            THEN 1 ELSE 0

C22_OneAlertPerMatch == [][C22_Step]_vars

(***************************************************************************)
(* Properties of the rate limiter of the API                               *)
(***************************************************************************)
\* the requests of a principal admitted at a time in [from, from + span)
AdmittedIn(history, identifier, from, span) ==
    {i \in DOMAIN history :
        /\ history[i].identifier = identifier
        /\ history[i].allowed
        /\ history[i].at >= from
        /\ history[i].at < from + span}

\* C23 (quota): for every principal, at most requests_per_minute requests
\* are admitted within any 60-second window and at most requests_per_hour
\* within any 3600-second window.
C23_Quota ==
    \A i \in DOMAIN api_limiter.history :
        LET h == api_limiter.history[i]
        IN  /\ Cardinality(AdmittedIn(api_limiter.history, h.identifier, h.at, 60))
                  <= RequestsPerMinute
            /\ Cardinality(AdmittedIn(api_limiter.history, h.identifier, h.at, 3600))
                  <= RequestsPerHour

\* C23 (outcome): the outcome of a request depends on the earlier admitted
\* requests of its own principal only, a rejected request is recorded in
\* neither window, and the windows of the other principals stay as they are.
C23_Step ==
    Len(api_limiter'.history) > Len(api_limiter.history) =>
        LET h == api_limiter'.history[Len(api_limiter'.history)]
            own(span) == AdmittedIn(api_limiter.history, h.identifier, h.at - span + 1, span)
            times(windows) == IF h.identifier \in DOMAIN windows
                              THEN {windows[h.identifier][j] : j \in DOMAIN windows[h.identifier]}
                              ELSE {}
        IN  /\ h.allowed <=> /\ Cardinality(own(60)) < RequestsPerMinute
                              /\ Cardinality(own(3600)) < RequestsPerHour
            /\ ~h.allowed =>
                   /\ times(api_limiter'.minute_windows) \subseteq times(api_limiter.minute_windows)
                   /\ times(api_limiter'.hour_windows) \subseteq times(api_limiter.hour_windows)
                   /\ Len(WindowOf(api_limiter'.minute_windows, h.identifier))
                         <= Len(WindowOf(api_limiter.minute_windows, h.identifier))
                   /\ Len(WindowOf(api_limiter'.hour_windows, h.identifier))
                         <= Len(WindowOf(api_limiter.hour_windows, h.identifier))
            /\ \A other \in Identifiers \ {h.identifier} :
                   /\ WindowOf(api_limiter'.minute_windows, other)
                         = WindowOf(api_limiter.minute_windows, other)
                   /\ WindowOf(api_limiter'.hour_windows, other)
                         = WindowOf(api_limiter.hour_windows, other)

C23_SlidingWindows == []C23_Quota /\ [][C23_Step]_vars

\* a principal was rejected by the minute limit, admitted again a minute
\* later and then rejected by the hour limit, and the other principal was
\* admitted at the time of the first rejection
C23_Witness ==
    \E i, j, k, l \in DOMAIN api_limiter.history :
        LET h == api_limiter.history
        IN  /\ i < k /\ k < j
            /\ h[i].identifier = h[j].identifier /\ h[j].identifier = h[k].identifier
            /\ ~h[i].allowed /\ h[i].error = "Rate limit exceeded: per minute"
            /\ h[k].allowed
            /\ ~h[j].allowed /\ h[j].error = "Rate limit exceeded: per hour"
            /\ h[l].identifier # h[i].identifier /\ h[l].allowed /\ h[l].at = h[i].at

(***************************************************************************)
(* Properties of the audit log                                             *)
(***************************************************************************)
\* the fields of an event that name no principal
EventFields(row) ==
    <<row.id, row.timestamp, row.event_type, row.action, row.resource, row.result>>

PrincipalFields(row) == <<row.user_id, row.api_key_id, row.ip_address, row.user_agent>>

\* C24: the audit log is append-only: after an event is logged no operation
\* deletes it or changes its fields, except that the right-to-erasure
\* operation sets the principal identifiers of the matching events to null;
\* the number of rows never goes down.
C24_Step ==
    /\ Len(audit'.rows) >= Len(audit.rows)
    /\ \A i \in DOMAIN audit.rows :
          \E j \in DOMAIN audit'.rows :
             /\ EventFields(audit'.rows[j]) = EventFields(audit.rows[i])
             /\ \/ PrincipalFields(audit'.rows[j]) = PrincipalFields(audit.rows[i])
                \/ /\ audit'.op = "anonymize_user_data"
                   /\ audit'.user_id \in {audit.rows[i].user_id, audit.rows[i].api_key_id}
                   /\ PrincipalFields(audit'.rows[j]) = <<NONE, NONE, NONE, NONE>>

C24_AppendOnly == [][C24_Step]_vars

(***************************************************************************)
(* Properties of the metrics collector                                     *)
(***************************************************************************)
\* C25: get_summary() terminates in every reachable state of the collector,
\* in particular after timings have been recorded: a thread that has
\* entered it leaves it again.
C25_SummaryTerminates ==
    \A t \in Threads :
        (metrics.threads[t].at = "get_summary") ~> (metrics.threads[t].at = "outside")

(***************************************************************************)
(* C26: update_source_status is serializable against concurrent callers:   *)
(* no call fails, and once the calls made for a source (one or more, the   *)
(* source having had no row before the first) are all over, the source has *)
(* exactly one row and its fetch_count is the number of calls made.        *)
(***************************************************************************)
UpsertQuiet == \A w \in Callers : upsert.callers[w].at = "idle"

C26_Serializable ==
    /\ upsert.raised = 0
    /\ UpsertQuiet =>
         \A source_name \in UpsertSources :
            upsert.started[source_name] > 0 =>
               LET rows == StatusSelect(upsert.table, source_name)
               IN  Len(rows) = 1 /\ rows[1].fetch_count = upsert.started[source_name]

(***************************************************************************)
(* C27: every call of evaluate with a Store bound appends exactly one      *)
(* hypothesis_evaluations row carrying the returned probability, whose     *)
(* three Monte Carlo fields are non-null exactly when simulate_n > 0, and  *)
(* leaves every earlier evaluation row as it was.                          *)
(***************************************************************************)
EvaluateBound == pam_calls' = pam_calls + 1 /\ eval_ret'.op = "evaluate" /\ eval_ret'.bound

C27_Step ==
    EvaluateBound =>
        LET before == db.hypothesis_evaluations
            after == db'.hypothesis_evaluations
        IN  /\ Len(after) = Len(before) + 1
            /\ SubSeq(after, 1, Len(before)) = before
            /\ ~eval_ret'.raised
            /\ after[Len(after)].hypothesis_name = eval_ret'.hyp
            /\ after[Len(after)].probability = eval_ret'.p
            /\ (after[Len(after)].monte_carlo_mean # -1) = (eval_ret'.simulate > 0)
            /\ (after[Len(after)].monte_carlo_low # -1) = (eval_ret'.simulate > 0)
            /\ (after[Len(after)].monte_carlo_high # -1) = (eval_ret'.simulate > 0)

C27_OneRowPerEvaluate == [][C27_Step]_vars

\* the same for the calls that return
C27_StepReturned == (EvaluateBound /\ ~eval_ret'.raised) => C27_Step

C27_OneRowPerReturn == [][C27_StepReturned]_vars

(***************************************************************************)
(* C28: every call of compute_signal with a Store bound appends exactly    *)
(* one signal_values row whose value is the clamped value the call         *)
(* returns, also for a signal without binding or without sources, and      *)
(* leaves every earlier signal_values row as it was.                       *)
(***************************************************************************)
ComputeBound ==
    /\ pam_calls' = pam_calls + 1
    /\ sig_ret'.op \in {"compute_signal", "compute_signal_async"}
    /\ sig_ret'.bound

C28_Step ==
    ComputeBound =>
        LET before == db.signal_values
            after == db'.signal_values
        IN  /\ Len(after) = Len(before) + 1
            /\ SubSeq(after, 1, Len(before)) = before
            /\ after[Len(after)].signal_name = sig_ret'.signal
            /\ after[Len(after)].value = sig_ret'.value

C28_OneRowPerCompute == [][C28_Step]_vars

\* the same for the signals with at least one bound source
C28_StepWithSources == (ComputeBound /\ Binding(sig_ret'.signal).sources # <<>>) => C28_Step

C28_OneRowWithSources == [][C28_StepWithSources]_vars

(***************************************************************************)
(* C29: with a whitelist supplied, the empty one of a config without       *)
(* sources included, validate_url accepts a URL only if its hostname is in *)
(* the whitelist or is "www." followed by a hostname in the whitelist; the *)
(* whitelist derived from a config holds every source hostname and its     *)
(* www-stripped variant.                                                   *)
(***************************************************************************)
Whitelisted(url, hosts) ==
    \/ Hostname(url) \in hosts
    \/ Len(Hostname(url)) > 1 /\ Head(Hostname(url)) = "www" /\ Tail(Hostname(url)) \in hosts

DerivedHolds(sources, hosts) ==
    \A n \in DOMAIN sources :
        /\ Hostname(sources[n].url) \in hosts
        /\ Head(Hostname(sources[n].url)) = "www" => Tail(Hostname(sources[n].url)) \in hosts

C29_WhitelistOnly ==
    /\ (url_ret.op = "validate_url" /\ url_ret.allowed.given /\ url_ret.accepted) =>
            Whitelisted(url_ret.url, url_ret.allowed.hosts)
    /\ url_ret.op = "get_allowed_netlocs_from_config" =>
            /\ url_ret.allowed.given
            /\ DerivedHolds(url_ret.sources, url_ret.allowed.hosts)

\* the same with a whitelist that is not empty
C29_NonEmptyWhitelist ==
    /\ (url_ret.op = "validate_url" /\ url_ret.allowed.given /\ url_ret.accepted
            /\ url_ret.allowed.hosts # {}) =>
            Whitelisted(url_ret.url, url_ret.allowed.hosts)
    /\ url_ret.op = "get_allowed_netlocs_from_config" =>
            /\ url_ret.allowed.given
            /\ DerivedHolds(url_ret.sources, url_ret.allowed.hosts)

(***************************************************************************)
(* C30: a broadcast never fails because the set of live clients changes    *)
(* while it iterates: whatever connect and disconnect calls other          *)
(* coroutines make while it is suspended in a send, the broadcast ends by  *)
(* returning, never by raising.                                            *)
(***************************************************************************)
C30_Step ==
    \A i \in 1..MaxSends :
        (SendEnds(i) /\ sends'[i].kind = "broadcast") => sends'[i].pos = "done"

C30_BroadcastNeverRaises == [][C30_Step]_vars

(***************************************************************************)
(* C31: the per-host buckets are thread-safe: when worker threads call     *)
(* check_rate_limit concurrently for one host, at most 10 calls are        *)
(* admitted within a 60-second window and no admitted timestamp is lost    *)
(* from the bucket.                                                        *)
(***************************************************************************)
BucketQuiet == \A w \in Workers : bucket.workers[w].at = "idle"

C31_ThreadSafe ==
    /\ bucket.admitted <= RATE_LIMIT_REQUESTS
    /\ BucketQuiet => Len(bucket.list) = bucket.admitted

(***************************************************************************)
(* C32: after cancel_job(job_id) has returned, the handler of the job is   *)
(* never started again, get_job_status(job_id) is None, and a task that    *)
(* was suspended (in the handler or in a sleep) ends at its next step      *)
(* instead of completing the tick and sleeping for the next one; until     *)
(* that step all that can happen to it is that the timer of its sleep runs *)
(* out.                                                                    *)
(***************************************************************************)
\* cancel_job(job_id) cancels a scheduled job in this step
Cancels(job_id) == tasks[job_id] # 0 /\ tasks'[job_id] = 0

C32_Step ==
    /\ \A job_id \in JobIds :
          Cancels(job_id) =>
             /\ GetJobStatus(jobs', tasks', loop_tasks', job_id) = NONE
             /\ \/ loop_tasks'[tasks[job_id]].must_cancel
                \/ loop_tasks'[tasks[job_id]].pos = "done"
    /\ \A t \in 1..MaxTasks :
          /\ HandlerStarts(t) => ~loop_tasks[t].must_cancel /\ tasks[loop_tasks[t].job] = t
          /\ (t \in DOMAIN loop_tasks /\ loop_tasks[t].must_cancel
                 /\ loop_tasks'[t] # loop_tasks[t]) =>
                \/ loop_tasks'[t].pos = "done"
                \/ loop_tasks[t].pos = "sleep" /\ loop_tasks'[t].pos = "timer"

\* a job that is not scheduled has no status
C32_NoStatus ==
    \A job_id \in JobIds :
        tasks[job_id] = 0 => GetJobStatus(jobs, tasks, loop_tasks, job_id) = NONE

C32_CancelInterrupts == []C32_NoStatus /\ [][C32_Step]_vars

\* cancel_job has returned for a job whose task is suspended in the handler
C32_Witness ==
    \E t \in DOMAIN loop_tasks :
        /\ loop_tasks[t].pos = "handler"
        /\ loop_tasks[t].must_cancel
        /\ tasks[loop_tasks[t].job] = 0
        /\ jobs[loop_tasks[t].job] = NONE

(***************************************************************************)
(* Properties of the feed cache                                            *)
(***************************************************************************)
\* a fetcher is called in this step
FetchStep == clock' = clock /\ last'.op \in FetcherOps

\* the entry of a URL is as it was: none is added and none is rewritten (an
\* entry that has expired may be dropped by the lookup)
EntryKept(url) ==
    url \in DOMAIN feed_cache' => (url \in DOMAIN feed_cache /\ feed_cache'[url] = feed_cache[url])

\* the URL was cached less than its time to live ago
WithinTtl(url) == url \in DOMAIN feed_cache /\ clock < feed_cache[url].expires_at

\* an entry is written only by a fetch that got a non-empty body from the
\* network, and a fetch that fails writes none
CachedOnlyOnSuccess ==
    /\ \A url \in DOMAIN feed_cache' :
          ~EntryKept(url) =>
             /\ url = last'.url
             /\ last'.success
             /\ "http" \in Range(last'.steps)
             /\ last'.data \in Bodies
             /\ feed_cache'[url] = [value |-> last'.data, expires_at |-> clock + FEED_TTL]
    /\ ~last'.success => \A url \in DOMAIN feed_cache' : EntryKept(url)

ServedFromCache ==
    /\ last'.success
    /\ last'.data = feed_cache[last'.url].value
    /\ "http" \notin Range(last'.steps)

C33_Step ==
    FetchStep =>
        /\ CachedOnlyOnSuccess
        /\ WithinTtl(last'.url) => ServedFromCache

\* C33, as claimed: the feed cache holds an entry for a URL only after a
\* fetch of it returned a non-empty body; a fetch that fails leaves the cache
\* unchanged; and after a successful fetch the next Fetch of the same URL
\* within the 10-minute TTL returns the cached bytes with ok=true and issues
\* no HTTP request.
C33_CacheOnlySuccess == [][C33_Step]_vars

\* the async fetcher refuses the call before it looks the cache up
RefusedBeforeCache ==
    /\ last'.op = "async_fetch_single_feed"
    /\ ~last'.success
    /\ last'.error \in {"URL validation failed", "Rate limit exceeded"}
    /\ "http" \notin Range(last'.steps)

C33_StepAmended ==
    FetchStep =>
        /\ CachedOnlyOnSuccess
        /\ WithinTtl(last'.url) => ServedFromCache \/ RefusedBeforeCache

\* C33, amended: as claimed, except that within the TTL the async fetcher,
\* which validates the URL and checks the rate limit before the cache lookup,
\* returns ok=false without an HTTP request when one of these two refuses the
\* call; every other Fetch within the TTL returns the cached bytes.
C33_Amended == [][C33_StepAmended]_vars

\* some time after a fetch cached the feed and within its TTL, the async
\* fetcher served the cached bytes, and no request went out
C33_Witness ==
    /\ last.op = "async_fetch_single_feed"
    /\ CacheHit
    /\ clock > 0
    /\ UrlFeed \in DOMAIN feed_cache
    /\ feed_cache[UrlFeed].expires_at = FEED_TTL
    /\ last.data = feed_cache[UrlFeed].value

(***************************************************************************)
(* C34: the severity of an Alert is a function of                          *)
(* d = |value - threshold| / max(threshold, 1e-9) only: critical if        *)
(* d > 0.5, else high if d > 0.3, else medium if d > 0.1, else low, for    *)
(* every value and threshold, thresholds that are zero or negative         *)
(* included.  In thousandths 1e-9 is below the unit, so with a threshold   *)
(* that is not positive d exceeds every one of the three levels as soon as *)
(* value and threshold differ.                                             *)
(***************************************************************************)
\* d > tenths / 10
DeviationOver(value, threshold, tenths) ==
    IF threshold >= 1 THEN Abs(value - threshold) * 10 > tenths * threshold
    ELSE Abs(value - threshold) > 0

SeverityOfDeviation(value, threshold) ==
    IF DeviationOver(value, threshold, 5) THEN "critical"
    ELSE IF DeviationOver(value, threshold, 3) THEN "high"
    ELSE IF DeviationOver(value, threshold, 1) THEN "medium"
    ELSE "low"

C34_SeverityByDeviation ==
    severity_ret.op = "_determine_severity" =>
        severity_ret.severity = SeverityOfDeviation(severity_ret.value, severity_ret.threshold)

\* the same for the thresholds above zero
C34_PositiveThreshold ==
    (severity_ret.op = "_determine_severity" /\ severity_ret.threshold > 0) =>
        severity_ret.severity = SeverityOfDeviation(severity_ret.value, severity_ret.threshold)

(***************************************************************************)
(* C35: in compute_signal an item counts as a hit only if its text         *)
(* contains an effective keyword of the binding and its published date, as *)
(* the feed delivers it, lies within window_days of now or cannot be       *)
(* resolved: a matching item with a parseable date older than window_days  *)
(* adds nothing to the value of its source.                                *)
(***************************************************************************)
\* the entries of the document a source delivered that match a keyword and
\* whose date is in the window or unresolved
DatedHits(feed_type, data, keywords, window_days) ==
    LET tag == IF feed_type = "rss" THEN "item" ELSE "entry"
        entries == SelectSeq(Document(data), LAMBDA e : e.tag = tag)
        kw == {Lower(Strip(keywords[j])) :
                  j \in {m \in DOMAIN keywords : Strip(keywords[m]) # <<>>}}
    IN  Cardinality({i \in DOMAIN entries :
            /\ \E k \in kw : Contains(Lower(entries[i].title \o <<" ">> \o entries[i].summary), k)
            /\ IsWithinWindow(ParseDate(entries[i].pub_date, window_days), window_days)})

C35_HitsWithinWindow ==
    sig_ret.op \in ComputeOps =>
        \A i \in 1..Len(BoundSources) :
            (i <= Len(sig_ret.vals) /\ UsableAt(i)) =>
                sig_ret.vals[i] =
                    Min(ISqrt((DatedHits(SourceDefs[BoundSources[i]].type,
                                         sig_ret.results[BoundSources[i]].data,
                                         Keywords(Binding(sig_ret.signal).keywords),
                                         Binding(sig_ret.signal).window_days)
                               * SCALE * SCALE) \div 20), SCALE)

(***************************************************************************)
(* C36: after any sequence of update_source_status calls made one after    *)
(* another there is exactly one source_status row per source that was      *)
(* updated, its fetch_count is the number of calls for the source, its     *)
(* error_count the number of those with success=false, and last_error is   *)
(* null exactly when the most recent call for the source was a success.    *)
(***************************************************************************)
StatusCallsOf(source_name) ==
    SelectSeq(status_log, LAMBDA c : c.source_name = source_name)

StatusLast(source_name) == StatusCallsOf(source_name)[Len(StatusCallsOf(source_name))]

\* the rows and the two counters
StatusCounts ==
    \A s \in Sources :
        /\ s \in DOMAIN db.source_status <=> StatusCallsOf(s) # <<>>
        /\ StatusCallsOf(s) # <<>> =>
            /\ db.source_status[s].fetch_count = Len(StatusCallsOf(s))
            /\ db.source_status[s].error_count =
                    Len(SelectSeq(StatusCallsOf(s), LAMBDA c : ~c.success))
            /\ db.source_status[s].error_count <= db.source_status[s].fetch_count

C36_SequentialStatus ==
    /\ StatusCounts
    /\ \A s \in Sources :
            StatusCallsOf(s) # <<>> =>
                (db.source_status[s].last_error = NONE <=> StatusLast(s).success)

\* C36 as amended: last_error is null when the most recent call was a
\* success, and otherwise is the error that call passed, null if it passed none
C36_Amended ==
    /\ StatusCounts
    /\ \A s \in Sources :
            StatusCallsOf(s) # <<>> =>
                db.source_status[s].last_error =
                    IF StatusLast(s).success THEN NONE ELSE StatusLast(s).error

\* a source failed with an error text and then succeeded; the other source
\* failed twice
C36_Witness ==
    /\ Len(status_log) = 4
    /\ \E s \in Sources :
        /\ Len(StatusCallsOf(s)) = 2
        /\ ~StatusCallsOf(s)[1].success /\ StatusCallsOf(s)[1].error # NONE
        /\ StatusLast(s).success
        /\ db.source_status[s].fetch_count = 2
        /\ db.source_status[s].error_count = 1
        /\ db.source_status[s].last_error = NONE
    /\ \E s \in Sources :
        /\ db.source_status[s].error_count = 2
        /\ db.source_status[s].last_error # NONE

(***************************************************************************)
(* C37: after any sequence of connect, disconnect, subscribe, unsubscribe, *)
(* send_personal_message and broadcast calls the keys of subscriptions are *)
(* the active connections, and subscribe or unsubscribe for a client that  *)
(* is not active changes neither of the two.                               *)
(***************************************************************************)
SubscriptionKeys == {c \in Clients : subscriptions[c] # NoKey}

C37_Step ==
    \A c \in Clients, scenario \in Scenarios :
        (/\ c \notin active_connections
         /\ SubscribeScenario(c, scenario) \/ UnsubscribeScenario(c, scenario))
            => UNCHANGED <<active_connections, subscriptions>>

C37_KeysAreActive ==
    /\ [](SubscriptionKeys = active_connections)
    /\ [][C37_Step]_vars

\* one client is connected and subscribed, the other was removed by a send
\* that failed
C37_Witness ==
    /\ active_connections = {"c1"}
    /\ subscriptions["c1"] = {"h1"}
    /\ subscriptions["c2"] = NoKey
    /\ \E id \in DOMAIN sends : sends[id].pos = "done" /\ sends[id].disconnected = {"c2"}

(***************************************************************************)
(* C38: all fetch URLs that name the same hostname count against one       *)
(* bucket of the rate limiter, whatever port they carry: the store never   *)
(* holds two buckets for one hostname.                                     *)
(***************************************************************************)
C38_OneBucketPerHost ==
    \A k1 \in DOMAIN rate_limit_store, k2 \in DOMAIN rate_limit_store :
        k1[1] = k2[1] => k1 = k2

(***************************************************************************)
(* C39: every handler that is subscribed to the event's type when publish  *)
(* starts is invoked with the event exactly once, also when handlers are   *)
(* unsubscribed or subscribed while the delivery is under way; and         *)
(* unsubscribe of a handler that is not subscribed leaves the lists as     *)
(* they are and raises nothing.                                            *)
(***************************************************************************)
DeliveryReturns == delivery.call.pos # "done" /\ delivery'.call.pos = "done"

DeliveredOnce ==
    \A h \in Handlers :
        Occurrences(delivery'.start, h) = 1 => delivery'.call.calls[h] = 1

\* a publish call that returns in the step it was made in
PublishedAtOnce ==
    /\ delivery'.ret = "published"
    /\ delivery'.call.pos = "done"

C39_Step == (DeliveryReturns \/ PublishedAtOnce) => DeliveredOnce

C39_DeliveryUnderChange ==
    /\ [](delivery.ret # "ValueError")
    /\ [][C39_Step]_vars

\* the two parts on their own
C39_EveryHandlerOnce == [][C39_Step]_vars

C39_UnsubscribeNeverRaises == delivery.ret # "ValueError"

(***************************************************************************)
(* C40: a rule restricted to a scenario produces Alerts only for events    *)
(* about that scenario, and a rule restricted to a signal only for events  *)
(* about that signal: a rule for scenario H alone never alerts on a        *)
(* signal_update event, a rule for a signal alone never on an              *)
(* evaluation_update event.                                                *)
(***************************************************************************)
C40_Step ==
    alert_mgr'.events # alert_mgr.events =>
        \A id \in DOMAIN alert_mgr.rules :
            LET rule == alert_mgr.rules[id]
                event == alert_mgr'.event
            IN  AlertsOf(NewAlerts, id) # {} =>
                    /\ rule.scenario # NONE =>
                            event.type = "evaluation_update" /\ event.subject = rule.scenario
                    /\ rule.signal # NONE =>
                            event.type = "signal_update" /\ event.subject = rule.signal

C40_RestrictedRules == [][C40_Step]_vars

\* the same for the events of the kind the rule's restriction is about
C40_StepSameKind ==
    alert_mgr'.events # alert_mgr.events =>
        \A id \in DOMAIN alert_mgr.rules :
            LET rule == alert_mgr.rules[id]
                event == alert_mgr'.event
            IN  AlertsOf(NewAlerts, id) # {} =>
                    /\ (rule.scenario # NONE /\ event.type = "evaluation_update") =>
                            event.subject = rule.scenario
                    /\ (rule.signal # NONE /\ event.type = "signal_update") =>
                            event.subject = rule.signal

C40_RestrictedSameKind == [][C40_StepSameKind]_vars

====
